---- MODULE Spec2Model ----
(***************************************************************************)
(* Model of the agent control core of agenticAI:                           *)
(*   - CodingAgent.run            (src/agenticAI/agent.py)                 *)
(*   - ActionGenerator            (src/agenticAI/actions/generator.py)     *)
(*   - ToolRegistry.execute_tool  (src/agenticAI/tools/base.py)            *)
(*   - MCPClient                  (src/agenticAI/mcp/client.py)            *)
(* ActionExecutor (actions/executor.py) is not part of the sources; its    *)
(* dispatch is modelled from section 4.3 of the specification.             *)
(***************************************************************************)
EXTENDS Integers, Sequences, FiniteSets, TLC

(***************************************************************************)
(* Bounds                                                                  *)
(***************************************************************************)
\* largest explicit max_iterations argument passed to run
MaxIterArg == 3
\* largest number of actions in a batch handed to the control loop
MaxBatch == 2
\* largest number of requests one client instance builds
MaxRequests == 11
\* largest number of registry operations
MaxRegistryOps == 3
\* largest number of server operations
MaxServerOps == 3

\* actions handed to one executor on its own
MaxExecutorOps == 2

\* max_iterations of a long run: one more than the context window holds
MaxLongIter == 6
\* requests built by the callers sharing one client
MaxCallerRequests == 4
\* max_iterations passed to each of the runs sharing one agent
MaxSharedIter == 2

\* config.agent.max_iterations (MAX_ITERATIONS of the environment, 50 when
\* unset); a small value of the environment variable keeps the run finite
ConfigMaxIterations == 2

(***************************************************************************)
(* Values                                                                  *)
(***************************************************************************)
\* Python's None where a string is expected
NoneV == "<None>"

\* the empty mapping {}
EmptyMap == [k \in {} |-> ""]

\* str(v) for the values of the model
PyStr(v) == IF v = NoneV THEN "None" ELSE v

\* s[:200]
Trunc200(s) == IF Len(s) <= 200 THEN s ELSE SubSeq(s, 1, 200)

\* sub in s
Contains(s, sub) ==
    \E i \in 1..(Len(s) - Len(sub) + 1) : SubSeq(s, i, i + Len(sub) - 1) = sub

\* one decimal digit
Digit(d) ==
    CASE d = 0 -> "0" [] d = 1 -> "1" [] d = 2 -> "2" [] d = 3 -> "3"
      [] d = 4 -> "4" [] d = 5 -> "5" [] d = 6 -> "6" [] d = 7 -> "7"
      [] d = 8 -> "8" [] d = 9 -> "9"

\* str(n) of a natural number
RECURSIVE IntStr(_)
IntStr(n) == IF n < 10 THEN Digit(n) ELSE IntStr(n \div 10) \o Digit(n % 10)

(***************************************************************************)
(* Action model (actions/action.py)                                        *)
(***************************************************************************)
TOOL_CALL == "tool_call"
LLM_GENERATE == "llm_generate"
FINISH == "finish"
MCP_REQUEST == "mcp_request"

\* Action(type, name, parameters, description); metadata defaults to {}
Action(type, name, parameters, description) ==
    [type |-> type, name |-> name, parameters |-> parameters,
     description |-> description, metadata |-> EmptyMap]

\* ActionResult.success_result(result)
success_result(result) ==
    [success |-> TRUE, result |-> result, error |-> NoneV, metadata |-> EmptyMap]

\* ActionResult.error_result(error)
error_result(error) ==
    [success |-> FALSE, result |-> NoneV, error |-> error, metadata |-> EmptyMap]

(***************************************************************************)
(* State                                                                   *)
(***************************************************************************)
VARIABLES
    \* ToolRegistry
    _tools,               \* ToolRegistry._tools: name -> handler of the tool
    _tools_order,         \* the keys of ToolRegistry._tools in insertion order
    registrations,        \* every register call made so far, in order
    handlerCalls,         \* every Tool.execute invocation made so far, in order
    regCall,              \* the last registry operation and what it gave
    regOps,               \* number of registry operations performed
    \* MCPClient
    transport,            \* MCPClient.transport: "none" or the kind of transport
    server_url,           \* MCPClient.server_url: NoneV or a URL
    request_id_counter,   \* MCPClient.request_id_counter
    requests,             \* every MCPRequest built by the instance, in order
    clientOut,            \* outcome of the last client call
    \* CodingAgent.run
    pc,                   \* position of the run
    generator,            \* the object bound to self.action_generator
    argMax,               \* max_iterations as passed by the caller
    origTask,             \* task as passed by the caller
    max_iterations,       \* local max_iterations
    iterations,           \* local iterations
    results,              \* local results
    task,                 \* local task
    context,              \* local context
    conversation_history, \* self.conversation_history
    response,             \* local response
    actions,              \* local actions
    idx,                  \* position of the for loop in actions (1-based)
    action_results,       \* local action_results
    ret,                  \* value returned by run
    prompts,              \* prompt of every generation call made, in order
    dispatched,           \* every action handed to the executor, in order
    exit,                 \* how the while loop was left, with the exception message
    batches,              \* per iteration: the batch and its action_results
    \* MCPServer
    tool_registry,        \* MCPServer.tool_registry: "none" or "bound" (to _tools)
    resources,            \* MCPServer.resources
    server_tools,         \* MCPServer.tools
    srvCall,              \* the last server operation and what it gave
    srvOps,               \* number of server operations performed
    \* ActionGenerator
    genIn,                \* the response handed to generate_from_llm_response
    genOut,               \* what the call gave, done = FALSE before it was made
    \* ActionExecutor
    execOut,              \* the last action handed to execute and what it gave
    execOps,              \* number of actions handed to the executor on its own
    \* coroutines sharing one instance
    callers,              \* per caller of one MCPClient: where it stands, its request
    parked,               \* locals of the suspended runs of one CodingAgent
    current               \* the run whose locals are in the agent's variables

registryVars == <<_tools, _tools_order, registrations, handlerCalls, regCall, regOps>>
clientVars == <<transport, server_url, request_id_counter, requests, clientOut>>
agentVars == <<pc, generator, argMax, origTask, max_iterations, iterations,
               results, task, context, conversation_history, response, actions, idx,
               action_results, ret, prompts, dispatched, exit, batches>>
serverVars == <<tool_registry, resources, server_tools, srvCall, srvOps>>
generatorVars == <<genIn, genOut>>
executorVars == <<execOut, execOps>>
sharedVars == <<callers, parked, current>>
vars == <<registryVars, clientVars, agentVars, serverVars, generatorVars,
          executorVars, sharedVars>>

(***************************************************************************)
(* Capability registry (tools/base.py)                                     *)
(***************************************************************************)
\* tool names used by the model: two that get registered, one that never is
ToolNames == {"echo", "boom", "frobnicate"}

\* behaviours of Tool.execute: "echo" returns its text argument, "boom"
\* raises, "fail" reports a failure of its own, "void" succeeds without a
\* result
Handlers == {"echo", "boom", "fail", "void"}

\* argument mappings passed as **kwargs
KwargsSet ==
    { EmptyMap,
      [text |-> "hi"],
      [name |-> "x"],
      [text |-> "hi", name |-> "x"] }

Returned(v) == [raised |-> FALSE, exc |-> NoneV, value |-> v]
Raised(msg) == [raised |-> TRUE, exc |-> msg, value |-> EmptyMap]

\* await tool.execute(**kwargs) for the three handler behaviours
ToolExecute(handler, kwargs) ==
    CASE handler = "echo" ->
            IF "text" \in DOMAIN kwargs
            THEN Returned([success |-> TRUE, result |-> kwargs["text"]])
            ELSE Raised("execute() missing 1 required positional argument: 'text'")
      [] handler = "boom" -> Raised("boom")
      [] handler = "fail" -> Returned([success |-> FALSE, error |-> "failed"])
      [] handler = "void" -> Returned([success |-> TRUE])

\* ToolRegistry.get(name): the registered handler, or none
RegistryGet(tools, name) ==
    IF name \in DOMAIN tools THEN <<tools[name]>> ELSE <<>>

\* binding of the call execute_tool(name, **kwargs) to the signature
\* (self, name, **kwargs): a keyword that names a positional parameter
\* already bound is a TypeError raised at the call
BindCollision(kwargs) == {"self", "name"} \cap DOMAIN kwargs # {}

\* ToolRegistry.execute_tool(name, **kwargs): the outcome and the handler
\* invocations it made
execute_tool(tools, name, kwargs) ==
    IF BindCollision(kwargs)
    THEN [out |-> Raised("execute_tool() got multiple values for argument 'name'"),
          calls |-> <<>>]
    ELSE LET tool == RegistryGet(tools, name) IN
         IF tool = <<>>
         THEN [out |-> Returned([success |-> FALSE,
                                 error |-> "Tool '" \o PyStr(name) \o "' not found"]),
               calls |-> <<>>]
         ELSE LET r == ToolExecute(tool[1], kwargs) IN
              [out |-> IF r.raised
                       THEN Returned([success |-> FALSE,
                                      error |-> "Tool execution failed: " \o r.exc])
                       ELSE r,
               calls |-> <<[tool |-> name, handler |-> tool[1], kwargs |-> kwargs]>>]

\* ToolParameter(name, type, description, required, default)
ToolParameter(name, type, description, required, default) ==
    [name |-> name, type |-> type, description |-> description,
     required |-> required, default |-> default]

\* the parameters the tools of the model declare: a required one; none; a
\* required one and an optional one with a default; an optional one without
\* default, a required one, and a required one with a default
ToolParameters(handler) ==
    CASE handler = "echo" ->
            <<ToolParameter("text", "string", "Text to echo", TRUE, NoneV)>>
      [] handler = "boom" -> <<>>
      [] handler = "fail" ->
            <<ToolParameter("path", "string", "Path to read", TRUE, NoneV),
              ToolParameter("encoding", "string", "Encoding", FALSE, "utf-8")>>
      [] handler = "void" ->
            <<ToolParameter("verbose", "boolean", "Verbose output", FALSE, NoneV),
              ToolParameter("target", "string", "Target", TRUE, NoneV),
              ToolParameter("mode", "string", "Mode", TRUE, "fast")>>

\* the Tool registered under a name with one of the handlers
Tool(name, handler) ==
    [name |-> name, description |-> "Tool " \o handler,
     parameters |-> ToolParameters(handler)]

\* the names of the parameters marked required, from position first on
RECURSIVE RequiredFrom(_, _)
RequiredFrom(parameters, first) ==
    IF first > Len(parameters) THEN <<>>
    ELSE (IF parameters[first].required THEN <<parameters[first].name>> ELSE <<>>)
             \o RequiredFrom(parameters, first + 1)

\* the last parameter declared under a name
LastDeclared(parameters, name) ==
    LET k == CHOOSE i \in 1..Len(parameters) :
                 /\ parameters[i].name = name
                 /\ \A j \in (i + 1)..Len(parameters) : parameters[j].name # name
    IN parameters[k]

\* a schema listing every parameter as required
get_schema_all_required(tool) ==
    [name |-> tool.name, description |-> tool.description,
     parameters |->
        [type |-> "object",
         properties |->
            [n \in {tool.parameters[i].name : i \in 1..Len(tool.parameters)} |->
                LET param == LastDeclared(tool.parameters, n) IN
                IF param.default # NoneV
                THEN [type |-> param.type, description |-> param.description,
                      default |-> param.default]
                ELSE [type |-> param.type, description |-> param.description]],
         required |-> [i \in 1..Len(tool.parameters) |-> tool.parameters[i].name]]]

\* Tool.get_schema()
get_schema(tool) ==
    [name |-> tool.name, description |-> tool.description,
     parameters |->
        [type |-> "object",
         properties |->
            [n \in {tool.parameters[i].name : i \in 1..Len(tool.parameters)} |->
                LET param == LastDeclared(tool.parameters, n) IN
                IF param.default # NoneV
                THEN [type |-> param.type, description |-> param.description,
                      default |-> param.default]
                ELSE [type |-> param.type, description |-> param.description]],
         required |-> RequiredFrom(tool.parameters, 1)]]

\* ToolRegistry.list_tools(): the schemas of the values of _tools, in the
\* order of the dict
list_tools_schemas(tools, order) ==
    [i \in 1..Len(order) |-> get_schema(Tool(order[i], tools[order[i]]))]

NoRegCall ==
    [op |-> "none", name |-> NoneV, kwargs |-> EmptyMap, out |-> Returned(EmptyMap),
     toolsBefore |-> EmptyMap, callsBefore |-> <<>>]

\* a registration that leaves an existing entry of the same name in place
RegisterKeepsFirst(name, handler) ==
    /\ regOps < MaxRegistryOps
    /\ regOps' = regOps + 1
    /\ _tools' = [n \in DOMAIN _tools \cup {name} |->
                     IF n \in DOMAIN _tools THEN _tools[n] ELSE handler]
    /\ _tools_order' = IF name \in DOMAIN _tools THEN _tools_order
                       ELSE Append(_tools_order, name)
    /\ registrations' = Append(registrations, [name |-> name, handler |-> handler])
    /\ regCall' = [op |-> "register", name |-> name, kwargs |-> EmptyMap,
                   out |-> Returned(EmptyMap),
                   toolsBefore |-> _tools, callsBefore |-> handlerCalls]
    /\ UNCHANGED handlerCalls

\* ToolRegistry.register(tool)
Register(name, handler) ==
    /\ regOps < MaxRegistryOps
    /\ regOps' = regOps + 1
    /\ _tools' = [n \in DOMAIN _tools \cup {name} |->
                     IF n = name THEN handler ELSE _tools[n]]
    /\ _tools_order' = IF name \in DOMAIN _tools THEN _tools_order
                       ELSE Append(_tools_order, name)
    /\ registrations' = Append(registrations, [name |-> name, handler |-> handler])
    /\ regCall' = [op |-> "register", name |-> name, kwargs |-> EmptyMap,
                   out |-> Returned(EmptyMap),
                   toolsBefore |-> _tools, callsBefore |-> handlerCalls]
    /\ UNCHANGED handlerCalls

\* a caller awaiting registry.execute_tool(name, **kwargs)
ExecuteTool(name, kwargs) ==
    /\ regOps < MaxRegistryOps
    /\ regOps' = regOps + 1
    /\ LET r == execute_tool(_tools, name, kwargs) IN
         /\ handlerCalls' = handlerCalls \o r.calls
         /\ regCall' = [op |-> "execute_tool", name |-> name, kwargs |-> kwargs,
                        out |-> r.out,
                        toolsBefore |-> _tools, callsBefore |-> handlerCalls]
    /\ UNCHANGED <<_tools, _tools_order, registrations>>

\* a caller of registry.get(name)
Get(name) ==
    /\ regOps < MaxRegistryOps
    /\ regOps' = regOps + 1
    /\ regCall' = [op |-> "get", name |-> name, kwargs |-> EmptyMap,
                   out |-> Returned(RegistryGet(_tools, name)),
                   toolsBefore |-> _tools, callsBefore |-> handlerCalls]
    /\ UNCHANGED <<_tools, _tools_order, registrations, handlerCalls>>

\* a caller of registry.list_tools()
ListTools ==
    /\ regOps < MaxRegistryOps
    /\ regOps' = regOps + 1
    /\ regCall' = [op |-> "list_tools", name |-> NoneV, kwargs |-> EmptyMap,
                   out |-> Returned(list_tools_schemas(_tools, _tools_order)),
                   toolsBefore |-> _tools, callsBefore |-> handlerCalls]
    /\ UNCHANGED <<_tools, _tools_order, registrations, handlerCalls>>

(***************************************************************************)
(* Protocol client (mcp/client.py)                                         *)
(***************************************************************************)
\* tagged Python values carried by protocol messages
PyNone == [t |-> "none"]
PyText(x) == [t |-> "str", v |-> x]
PyDict(m) == [t |-> "dict", v |-> m]
PyList(q) == [t |-> "list", v |-> q]

\* d.get(key, default) on a mapping
DictGet(d, key, default) ==
    IF DOMAIN d # {} /\ key \in DOMAIN d THEN d[key] ELSE default

\* the wrappers of MCPClient and the method string each puts in its request
ClientMethods ==
    [initialize |-> "initialize", list_resources |-> "resources/list",
     read_resource |-> "resources/read", list_tools |-> "tools/list",
     call_tool |-> "tools/call"]

\* an id generator returning the counter as it was before the increment
_next_id_stale(counter) == [counter |-> counter + 1, id |-> IntStr(counter)]

\* MCPClient._next_id(): the counter after the increment and the id returned
_next_id(counter) == [counter |-> counter + 1, id |-> IntStr(counter + 1)]

\* MCPRequest(id, method, params).dict()
MCPRequest(id, method, params) ==
    [jsonrpc |-> "2.0", id |-> id, method |-> method, params |-> params]

\* params each wrapper puts in its request
WrapperParams(w) ==
    CASE w = "initialize" ->
            [protocolVersion |-> PyText("2024-11-05"),
             capabilities |-> PyDict(EmptyMap),
             clientInfo |-> PyDict([name |-> PyText("coding-agent"),
                                    version |-> PyText("1.0.0")])]
      [] w = "read_resource" -> [uri |-> PyText("file:///a")]
      [] w = "call_tool" -> [name |-> PyText("echo"),
                             arguments |-> PyDict([text |-> PyText("hi")])]
      [] OTHER -> EmptyMap

\* what an injected transport's send(request) may give back: a result under
\* the request's id, an error without result under the request's id (the
\* shape of MCPResponse.dict()), an error in a message without result member,
\* a result under another id, or an exception
TransportOutcomes(req) ==
    { Returned([jsonrpc |-> "2.0", id |-> req.id,
                result |-> PyDict([resources |-> PyList(<<"r1">>),
                                   tools |-> PyList(<<"t1">>)]),
                error |-> PyNone]),
      Returned([jsonrpc |-> "2.0", id |-> req.id, result |-> PyNone,
                error |-> PyDict([code |-> -32603, message |-> "failed"])]),
      Returned([jsonrpc |-> "2.0", id |-> req.id,
                error |-> PyDict([code |-> -32601, message |-> "unknown"])]),
      Returned([jsonrpc |-> "2.0", id |-> "0",
                result |-> PyDict([resources |-> PyList(<<"r0">>),
                                   tools |-> PyList(<<"t0">>)]),
                error |-> PyNone]),
      Raised("connection reset") }

\* a send that answers with the placeholder whenever no transport is injected
send_request_placeholder(tr, url, req) ==
    IF tr # "none" THEN TransportOutcomes(req)
    ELSE { Returned([result |-> PyNone,
                     error |-> PyText("HTTP transport not implemented")]) }

\* MCPClient.send_request(request): the outcomes possible for this instance
send_request(tr, url, req) ==
    IF tr # "none" THEN TransportOutcomes(req)
    ELSE IF url # NoneV
         THEN { Returned([result |-> PyNone,
                          error |-> PyText("HTTP transport not implemented")]) }
         ELSE { Raised("No transport or server URL configured") }

\* x.get(key, default) on a Python value that need not be a dict
PyGet(x, key, default) ==
    IF x.t = "dict" THEN Returned(DictGet(x.v, key, default))
    ELSE Raised("'NoneType' object has no attribute 'get'")

\* what wrapper w returns to its caller given the outcome of send_request
WrapperReturn(w, sent) ==
    IF sent.raised THEN sent
    ELSE LET res == DictGet(sent.value, "result", PyDict(EmptyMap)) IN
         CASE w = "initialize" -> Returned(PyDict(sent.value))
           [] w = "list_resources" -> PyGet(res, "resources", PyList(<<>>))
           [] w = "list_tools" -> PyGet(res, "tools", PyList(<<>>))
           [] OTHER -> Returned(res)

NoClientOut ==
    [wrapper |-> "none", id |-> NoneV, sent |-> Returned(EmptyMap),
     out |-> Returned(PyNone)]

\* one call of initialize / list_resources / read_resource / list_tools /
\* call_tool: build the request with a fresh id, send it, unwrap the response
ClientCall(w) ==
    /\ request_id_counter < MaxRequests
    /\ LET nid == _next_id(request_id_counter)
           req == MCPRequest(nid.id, ClientMethods[w], WrapperParams(w))
       IN /\ request_id_counter' = nid.counter
          /\ requests' = Append(requests, req.id)
          /\ \E sent \in send_request(transport, server_url, req) :
                clientOut' = [wrapper |-> w, id |-> req.id, sent |-> sent,
                              out |-> WrapperReturn(w, sent)]
    /\ UNCHANGED <<transport, server_url>>

initialize == ClientCall("initialize")
list_resources == ClientCall("list_resources")
read_resource == ClientCall("read_resource")
list_tools == ClientCall("list_tools")
call_tool == ClientCall("call_tool")

(***************************************************************************)
(* Protocol server (mcp/server.py)                                         *)
(***************************************************************************)
\* a response that does not say which request it answers
MCPResponseWithoutId(id, result, error) ==
    [jsonrpc |-> "2.0", id |-> NoneV, result |-> result, error |-> error]

\* MCPResponse(id, result, error); unset fields are None
MCPResponse(id, result, error) ==
    [jsonrpc |-> "2.0", id |-> id, result |-> result, error |-> error]

\* descriptors registered on a server
MCPResources ==
    { [uri |-> "file:///a", name |-> "a", description |-> NoneV, mimeType |-> NoneV],
      [uri |-> "file:///b", name |-> "a", description |-> "b", mimeType |-> NoneV] }
MCPTools ==
    { [name |-> "echo", description |-> "Echo", inputSchema |-> EmptyMap],
      [name |-> "echo", description |-> "Echo again", inputSchema |-> EmptyMap] }

\* methods of the requests a server receives: the five of the protocol and
\* two it has never heard of
RequestMethods ==
    {"initialize", "resources/list", "resources/read", "tools/list", "tools/call",
     "prompts/list", ""}

\* params of tools/call requests: well-formed ones, one without arguments,
\* one whose arguments are a list, one whose arguments hold the key `name`
ToolCallParams ==
    << [name |-> PyText("echo"), arguments |-> PyDict([text |-> PyText("hi")])],
       [name |-> PyText("void"), arguments |-> PyDict(EmptyMap)],
       [name |-> PyText("boom"), arguments |-> PyDict(EmptyMap)],
       [name |-> PyText("fail")],
       [name |-> PyText("frobnicate"), arguments |-> PyDict(EmptyMap)],
       [name |-> PyText("echo"), arguments |-> PyList(<<PyText("hi")>>)],
       [name |-> PyText("echo"),
        arguments |-> PyDict([text |-> PyText("hi"), name |-> PyText("x")])] >>

RequestIds == {"1", "7"}

\* requests without params, of every method (a tools/call among them)
EmptyParamRequests ==
    { MCPRequest(id, method, EmptyMap) : id \in RequestIds, method \in RequestMethods }

\* the request MCPClient.read_resource builds
ReadRequests ==
    { MCPRequest(id, "resources/read", [uri |-> PyText("file:///a")]) :
          id \in RequestIds }

\* the keyword arguments **arguments passes on
Untag(m) == IF DOMAIN m = {} THEN EmptyMap ELSE [k \in DOMAIN m |-> m[k].v]

\* the response to a method the dispatch does not know, under another code
MethodNotFoundAsInternal(request) ==
    MCPResponse(request.id, PyNone,
                PyDict([code |-> -32603,
                        message |-> "Method not found: " \o request.method]))

\* the else branch of handle_request (lines 55-62)
MethodNotFound(request) ==
    MCPResponse(request.id, PyNone,
                PyDict([code |-> -32601,
                        message |-> "Method not found: " \o request.method]))

\* the response wrapping a failed invocation, the message left out
ToolCallResponseNoMessage(request, result) ==
    IF DictGet(result, "success", FALSE)
    THEN MCPResponse(request.id,
             PyDict([content |->
                 PyList(<<PyDict([type |-> "text",
                                  text |-> PyStr(DictGet(result, "result", NoneV))])>>)]),
             PyNone)
    ELSE MCPResponse(request.id, PyNone,
             PyDict([code |-> -32603, message |-> "Tool execution failed"]))

\* the response _handle_tool_call builds from the registry's result
\* (lines 78-90)
ToolCallResponse(request, result) ==
    IF DictGet(result, "success", FALSE)
    THEN MCPResponse(request.id,
             PyDict([content |->
                 PyList(<<PyDict([type |-> "text",
                                  text |-> PyStr(DictGet(result, "result", NoneV))])>>)]),
             PyNone)
    ELSE MCPResponse(request.id, PyNone,
             PyDict([code |-> -32603,
                     message |-> DictGet(result, "error", "Tool execution failed")]))

\* MCPServer._handle_tool_call(request): the outcome and the handler
\* invocations made
_handle_tool_call(bound, tools, request) ==
    LET tool_name == DictGet(request.params, "name", PyNone)
        arguments == DictGet(request.params, "arguments", PyDict(EmptyMap))
    IN IF bound = "none"
       THEN [out |-> Returned(MCPResponse(request.id, PyNone,
                         PyDict([code |-> -32603,
                                 message |-> "Tool registry not available"]))),
             calls |-> <<>>]
       ELSE IF arguments.t # "dict"
       THEN [out |-> Raised("execute_tool() argument after ** must be a mapping, not list"),
             calls |-> <<>>]
       ELSE LET r == execute_tool(tools,
                                  IF tool_name.t = "str" THEN tool_name.v ELSE NoneV,
                                  Untag(arguments.v))
            IN [out |-> IF r.out.raised THEN r.out
                        ELSE Returned(ToolCallResponse(request, r.out.value)),
                calls |-> r.calls]

\* MCPServer.handle_request(request)
handle_request(bound, tools, res, stools, request) ==
    CASE request.method = "initialize" ->
            [out |-> Returned(MCPResponse(request.id,
                        PyDict([protocolVersion |-> PyText("2024-11-05"),
                                capabilities |-> PyDict([resources |-> PyDict(EmptyMap),
                                                         tools |-> PyDict(EmptyMap)]),
                                serverInfo |-> PyDict([name |-> PyText("coding-agent"),
                                                       version |-> PyText("1.0.0")])]),
                        PyNone)),
             calls |-> <<>>]
      [] request.method = "resources/list" ->
            [out |-> Returned(MCPResponse(request.id,
                        PyDict([resources |-> PyList(res)]), PyNone)),
             calls |-> <<>>]
      [] request.method = "tools/list" ->
            [out |-> Returned(MCPResponse(request.id,
                        PyDict([tools |-> PyList(stools)]), PyNone)),
             calls |-> <<>>]
      [] request.method = "tools/call" -> _handle_tool_call(bound, tools, request)
      [] OTHER -> [out |-> Returned(MethodNotFound(request)), calls |-> <<>>]

NoSrvCall ==
    [op |-> "none", request |-> MCPRequest(NoneV, NoneV, EmptyMap),
     out |-> Returned(EmptyMap), callsBefore |-> <<>>,
     resourcesBefore |-> <<>>, toolsBefore |-> <<>>, registered |-> <<>>]

\* MCPServer.register_resource(resource)
register_resource(resource) ==
    /\ srvOps < MaxServerOps
    /\ srvOps' = srvOps + 1
    /\ resources' = Append(resources, resource)
    /\ srvCall' = [NoSrvCall EXCEPT !.op = "register_resource",
                                    !.registered = <<resource>>,
                                    !.callsBefore = handlerCalls,
                                    !.resourcesBefore = resources,
                                    !.toolsBefore = server_tools]
    /\ UNCHANGED <<tool_registry, server_tools, handlerCalls>>

\* a registration replacing the entries of the same name
register_tool_replacing(tool) ==
    /\ srvOps < MaxServerOps
    /\ srvOps' = srvOps + 1
    /\ server_tools' =
           LET Other(t) == t.name # tool.name
           IN Append(SelectSeq(server_tools, Other), tool)
    /\ srvCall' = [NoSrvCall EXCEPT !.op = "register_tool",
                                    !.registered = <<tool>>,
                                    !.callsBefore = handlerCalls,
                                    !.resourcesBefore = resources,
                                    !.toolsBefore = server_tools]
    /\ UNCHANGED <<tool_registry, resources, handlerCalls>>

\* MCPServer.register_tool(tool)
register_tool(tool) ==
    /\ srvOps < MaxServerOps
    /\ srvOps' = srvOps + 1
    /\ server_tools' = Append(server_tools, tool)
    /\ srvCall' = [NoSrvCall EXCEPT !.op = "register_tool",
                                    !.registered = <<tool>>,
                                    !.callsBefore = handlerCalls,
                                    !.resourcesBefore = resources,
                                    !.toolsBefore = server_tools]
    /\ UNCHANGED <<tool_registry, resources, handlerCalls>>

\* a peer awaiting server.handle_request(request)
HandleRequest(request) ==
    /\ srvOps < MaxServerOps
    /\ srvOps' = srvOps + 1
    /\ LET r == handle_request(tool_registry, _tools, resources, server_tools,
                               request)
       IN /\ handlerCalls' = handlerCalls \o r.calls
          /\ srvCall' = [op |-> "handle_request", request |-> request,
                         out |-> r.out, callsBefore |-> handlerCalls,
                         resourcesBefore |-> resources,
                         toolsBefore |-> server_tools, registered |-> <<>>]
    /\ UNCHANGED <<tool_registry, resources, server_tools>>

(***************************************************************************)
(* Action generator (actions/generator.py)                                 *)
(***************************************************************************)
ActionTypes ==
    {"tool_call", "llm_generate", "mcp_request", "conditional", "loop", "finish"}

FinishJson == "{\"type\": \"finish\", \"name\": \"done\"}"
BogusJson == "{\"type\": \"bogus\", \"name\": \"x\"}"
ToolJson ==
    "{\"type\": \"tool_call\", \"name\": \"echo\", \"parameters\": {\"text\": \"hi\"}, \"description\": \"say hi\"}"
NoTypeJson == "{\"name\": \"x\"}"
NoNameJson == "{\"type\": \"finish\"}"
BadParametersJson == "{\"type\": \"finish\", \"name\": \"done\", \"parameters\": 3}"

\* json.loads(text) on the texts of the model: the kind of value it gives
\* ("error" for JSONDecodeError, "typeerror" for the TypeError it raises on
\* None) and, for an object, its members: strings as they are, other values
\* tagged
json_loads(text) ==
    CASE text = "{\"text\": \"hi\"}" ->
            [ok |-> TRUE, kind |-> "object", obj |-> [text |-> "hi"]]
      [] text = "{}" -> [ok |-> TRUE, kind |-> "object", obj |-> EmptyMap]
      [] text = "null" -> [ok |-> TRUE, kind |-> "null", obj |-> EmptyMap]
      [] text = "[1]" -> [ok |-> TRUE, kind |-> "array", obj |-> EmptyMap]
      [] text = NoneV -> [ok |-> FALSE, kind |-> "typeerror", obj |-> EmptyMap]
      [] text = FinishJson ->
            [ok |-> TRUE, kind |-> "object",
             obj |-> [type |-> "finish", name |-> "done"]]
      [] text = BogusJson ->
            [ok |-> TRUE, kind |-> "object",
             obj |-> [type |-> "bogus", name |-> "x"]]
      [] text = ToolJson ->
            [ok |-> TRUE, kind |-> "object",
             obj |-> [type |-> "tool_call", name |-> "echo",
                      parameters |-> PyDict([text |-> "hi"]),
                      description |-> "say hi"]]
      [] text = NoTypeJson ->
            [ok |-> TRUE, kind |-> "object", obj |-> [name |-> "x"]]
      [] text = NoNameJson ->
            [ok |-> TRUE, kind |-> "object", obj |-> [type |-> "finish"]]
      [] text = BadParametersJson ->
            [ok |-> TRUE, kind |-> "object",
             obj |-> [type |-> "finish", name |-> "done",
                      parameters |-> [t |-> "int", v |-> 3]]]
      [] OTHER -> [ok |-> FALSE, kind |-> "error", obj |-> EmptyMap]

IsSpace(c) == c \in {" ", "\n", "\t", "\r"}

\* content.strip()
RECURSIVE strip(_)
strip(text) ==
    IF Len(text) = 0 THEN text
    ELSE IF IsSpace(SubSeq(text, 1, 1)) THEN strip(SubSeq(text, 2, Len(text)))
    ELSE IF IsSpace(SubSeq(text, Len(text), Len(text)))
         THEN strip(SubSeq(text, 1, Len(text) - 1))
    ELSE text

\* text.startswith(prefix) for a one-character prefix
startswith(text, prefix) == Len(text) >= 1 /\ SubSeq(text, 1, 1) = prefix

\* ActionGenerator._parse_function_args(args_str): the parsed value, {} when
\* json.loads raises JSONDecodeError; any other exception is not caught
_parse_function_args(args_str) ==
    LET j == json_loads(args_str) IN
    IF j.kind = "error" THEN [ok |-> TRUE, kind |-> "object", obj |-> EmptyMap]
    ELSE j

\* whether Action(**data) validates: a known type, a name, and parameters
\* that are a mapping when given
ActionValidates(data) ==
    /\ DOMAIN data # {}
    /\ "type" \in DOMAIN data
    /\ data["type"] \in ActionTypes
    /\ "name" \in DOMAIN data
    /\ "parameters" \in DOMAIN data => data["parameters"].t = "dict"

\* a content parser that recognises nothing
_parse_action_from_content_never(content) == <<>>

\* ActionGenerator._parse_action_from_content(content): <<action>> or <<>>
_parse_action_from_content(content) ==
    LET c == strip(content) IN
    IF startswith(c, "{") \/ startswith(c, "[")
    THEN LET j == json_loads(c) IN
         IF j.ok /\ j.kind = "object" /\ ActionValidates(j.obj)
         THEN <<Action(j.obj["type"], j.obj["name"],
                       IF "parameters" \in DOMAIN j.obj
                       THEN j.obj["parameters"].v ELSE EmptyMap,
                       IF "description" \in DOMAIN j.obj
                       THEN j.obj["description"] ELSE NoneV)>>
         ELSE <<>>
    ELSE <<>>

\* responses of the generation service: content and, when the service made a
\* function call, metadata = {"function_call": {name, arguments}}
NoCall == [present |-> FALSE, name |-> NoneV, arguments |-> NoneV]
Call(name, arguments) == [present |-> TRUE, name |-> name, arguments |-> arguments]
LLMResponse(content, function_call) ==
    [content |-> content, function_call |-> function_call]

\* a function_call mapping without the key "arguments"
Absent == "<absent>"

Responses ==
    { LLMResponse("", NoCall),
      LLMResponse("just some notes", NoCall),
      LLMResponse(FinishJson, NoCall),
      LLMResponse(BogusJson, NoCall),
      LLMResponse("", Call("echo", "{\"text\": \"hi\"}")),
      LLMResponse("calling", Call("frobnicate", "not json")),
      LLMResponse("", Call("echo", "null")) }

\* ActionGenerator.generate_from_llm_response(response): the list of
\* actions, or the exception that leaves the call
generate_from_llm_response(resp) ==
    IF resp.function_call.present
    THEN LET args_str == IF resp.function_call.arguments = Absent THEN "{}"
                         ELSE resp.function_call.arguments
             args == _parse_function_args(args_str)
         IN
         IF args.kind = "object"
         THEN [raised |-> FALSE, exc |-> NoneV,
               actions |-> <<Action(TOOL_CALL, resp.function_call.name, args.obj,
                                    "Call tool: " \o resp.function_call.name)>>]
         ELSE IF args.kind = "typeerror"
         THEN [raised |-> TRUE,
               exc |-> "the JSON object must be str, bytes or bytearray, not NoneType",
               actions |-> <<>>]
         ELSE [raised |-> TRUE,
               exc |-> "1 validation error for Action\nparameters",
               actions |-> <<>>]
    ELSE IF resp.content # ""
    THEN LET parsed == _parse_action_from_content(resp.content) IN
         [raised |-> FALSE, exc |-> NoneV,
          actions |-> IF parsed # <<>> THEN parsed
                      ELSE <<Action(LLM_GENERATE, "generate",
                                    [content |-> resp.content],
                                    "LLM generated content")>>]
    ELSE [raised |-> FALSE, exc |-> NoneV, actions |-> <<>>]

\* contents and function calls handed to the generator on its own
GeneratorContents ==
    { "", "just some notes", "   ", FinishJson, "  " \o FinishJson \o "\n",
      BogusJson, ToolJson, NoTypeJson, NoNameJson, BadParametersJson,
      "{not json", "[1]" }
GeneratorCalls ==
    {NoCall} \cup
    { Call(name, arguments) :
          name \in {"echo", "frobnicate"},
          arguments \in {"{\"text\": \"hi\"}", "{}", "not json", "null", "[1]",
                         NoneV, Absent} }

NoGenOut == [done |-> FALSE, raised |-> FALSE, exc |-> NoneV, actions |-> <<>>]

\* a caller invoking generator.generate_from_llm_response(genIn)
GenerateActions ==
    /\ ~genOut.done
    /\ LET r == generate_from_llm_response(genIn) IN
       genOut' = [done |-> TRUE, raised |-> r.raised, exc |-> r.exc,
                  actions |-> r.actions]
    /\ UNCHANGED genIn

(***************************************************************************)
(* Action executor (specification, section 4.3)                            *)
(***************************************************************************)
\* an executor for which a generate action is one more tool call
execute_generate_as_tool(tools, action) ==
    CASE action.type \in {TOOL_CALL, LLM_GENERATE} ->
            LET r == execute_tool(tools, action.name, action.parameters) IN
            [result |-> IF r.out.raised THEN error_result(r.out.exc)
                        ELSE [success |-> r.out.value.success,
                              result |-> DictGet(r.out.value, "result", NoneV),
                              error |-> DictGet(r.out.value, "error", NoneV),
                              metadata |-> EmptyMap],
             calls |-> r.calls]
      [] action.type = FINISH ->
            [result |-> success_result(DictGet(action.parameters, "message", NoneV)),
             calls |-> <<>>]
      [] action.type \in {"conditional", "loop"} ->
            [result |-> success_result(NoneV), calls |-> <<>>]

\* ActionExecutor.execute(action, workspace_path): the ActionResult and the
\* handler invocations made on the way
execute(tools, action) ==
    CASE action.type = TOOL_CALL ->
            LET r == execute_tool(tools, action.name, action.parameters) IN
            [result |-> IF r.out.raised THEN error_result(r.out.exc)
                        ELSE [success |-> r.out.value.success,
                              result |-> DictGet(r.out.value, "result", NoneV),
                              error |-> DictGet(r.out.value, "error", NoneV),
                              metadata |-> EmptyMap],
             calls |-> r.calls]
      [] action.type = LLM_GENERATE ->
            [result |-> success_result(DictGet(action.parameters, "content", NoneV)),
             calls |-> <<>>]
      [] action.type = FINISH ->
            [result |-> success_result(DictGet(action.parameters, "message", NoneV)),
             calls |-> <<>>]
      [] action.type \in {"conditional", "loop"} ->
            [result |-> success_result(NoneV), calls |-> <<>>]

\* a dispatch wrapping whatever the client's call left as a success
execute_protocol_request_wrapping(sent) ==
    success_result(IF sent.raised THEN sent.exc ELSE sent.value)

\* the dispatch of a protocol request: the response of the client's call
\* wrapped as a success, an exception of the call converted to an error
execute_protocol_request(sent) ==
    IF sent.raised THEN error_result(sent.exc) ELSE success_result(sent.value)

\* actions handed to an executor on its own: tool calls of every outcome
\* (result, failure, raise, unknown name, arguments holding the key `name`),
\* and one action of every other type
ExecutorActions ==
    << Action(TOOL_CALL, "echo", [text |-> "hi"], "Call tool: echo"),
       Action(TOOL_CALL, "frobnicate", EmptyMap, "Call tool: frobnicate"),
       Action(TOOL_CALL, "echo", [text |-> "hi", name |-> "x"], "Call tool: echo"),
       Action(TOOL_CALL, "frobnicate", [name |-> "x"], "Call tool: frobnicate"),
       Action(TOOL_CALL, "echo", EmptyMap, "Call tool: echo"),
       Action(TOOL_CALL, "boom", EmptyMap, "Call tool: boom"),
       Action(TOOL_CALL, "fail", EmptyMap, "Call tool: fail"),
       Action(TOOL_CALL, "void", EmptyMap, "Call tool: void"),
       Action(LLM_GENERATE, "generate", [content |-> "just some notes"],
              "LLM generated content"),
       Action(MCP_REQUEST, "tools/list", EmptyMap, "MCP request: tools/list"),
       Action("conditional", "if", EmptyMap, NoneV),
       Action("loop", "repeat", EmptyMap, NoneV),
       Action(FINISH, "finish", [message |-> "all done"], NoneV) >>

NoExecOut ==
    [done |-> FALSE, index |-> 0, result |-> success_result(NoneV),
     sent |-> Returned(EmptyMap), callsBefore |-> <<>>, requestsBefore |-> <<>>]

\* a caller awaiting executor.execute(ExecutorActions[i], workspace_path)
Dispatch(i) ==
    /\ execOps < MaxExecutorOps
    /\ execOps' = execOps + 1
    /\ LET action == ExecutorActions[i] IN
       IF action.type = MCP_REQUEST
       THEN LET nid == _next_id(request_id_counter)
                req == MCPRequest(nid.id, action.name, action.parameters)
            IN /\ request_id_counter' = nid.counter
               /\ requests' = Append(requests, req.id)
               /\ \E sent \in send_request(transport, server_url, req) :
                     /\ clientOut' = [wrapper |-> "send_request", id |-> req.id,
                                      sent |-> sent, out |-> sent]
                     /\ execOut' = [done |-> TRUE, index |-> i,
                                    result |-> execute_protocol_request(sent),
                                    sent |-> sent,
                                    callsBefore |-> handlerCalls,
                                    requestsBefore |-> requests]
               /\ UNCHANGED handlerCalls
       ELSE LET r == execute(_tools, action) IN
            /\ handlerCalls' = handlerCalls \o r.calls
            /\ execOut' = [done |-> TRUE, index |-> i, result |-> r.result,
                           sent |-> Returned(EmptyMap),
                           callsBefore |-> handlerCalls,
                           requestsBefore |-> requests]
            /\ UNCHANGED <<request_id_counter, requests, clientOut>>
    /\ UNCHANGED <<_tools, _tools_order, registrations, regCall, regOps,
                   transport, server_url>>

(***************************************************************************)
(* Control loop (agent.py)                                                 *)
(***************************************************************************)
\* the tools the agent's constructor registers (_register_tools)
AgentTools == [n \in {"echo", "boom"} |-> n]

\* max_iterations as the caller may pass it: omitted (None) or an integer
MaxIterArgs ==
    {[given |-> FALSE, value |-> 0]}
        \cup {[given |-> TRUE, value |-> n] : n \in 0..MaxIterArg}

\* max_iterations or config.agent.max_iterations
EffectiveMax(arg) ==
    IF arg.given /\ arg.value # 0 THEN arg.value ELSE ConfigMaxIterations

\* actions a replaced action generator hands to the loop
EchoCall == Action(TOOL_CALL, "echo", [text |-> "hi"], "Call tool: echo")
MissingCall == Action(TOOL_CALL, "frobnicate", EmptyMap, "Call tool: frobnicate")
Finish == Action(FINISH, "finish", [message |-> "all done"], NoneV)
InjectedActions == {EchoCall, MissingCall, Finish}

RECURSIVE SeqsUpTo(_, _)
SeqsUpTo(S, n) ==
    IF n = 0 THEN {<<>>}
    ELSE LET shorter == SeqsUpTo(S, n - 1) IN
         shorter \cup {Append(q, a) : q \in shorter, a \in S}

InjectedBatches == SeqsUpTo(InjectedActions, MaxBatch)

\* the last n entries of a list: q[-n:]
LastN(q, n) == IF Len(q) <= n THEN q ELSE SubSeq(q, Len(q) - n + 1, Len(q))

\* role.upper() for the roles the loop writes
upper(role) ==
    CASE role = "user" -> "USER" [] role = "assistant" -> "ASSISTANT"

\* "\n\n".join(parts), "\n".join(parts)
RECURSIVE join(_, _)
join(sep, parts) ==
    IF Len(parts) = 0 THEN ""
    ELSE IF Len(parts) = 1 THEN parts[1]
    ELSE parts[1] \o sep \o join(sep, Tail(parts))

\* number of trailing history entries materialized into the prompt
ContextWindow == 5

\* a context built from the whole history
_build_context_unbounded(history) ==
    join("\n\n", [i \in 1..Len(history) |->
                     upper(history[i].role) \o ": " \o history[i].content])

\* CodingAgent._build_context()
_build_context(history) ==
    LET window == LastN(history, ContextWindow) IN
    join("\n\n", [i \in 1..Len(window) |->
                     upper(window[i].role) \o ": " \o window[i].content])

\* one line of _format_results_for_llm
FormatResult(entry) ==
    IF entry.result.success
    THEN "Action '" \o entry.action.name \o "' completed successfully. "
            \o "Result: " \o Trunc200(PyStr(entry.result.result))
    ELSE "Action '" \o entry.action.name \o "' failed: " \o entry.result.error

\* CodingAgent._format_results_for_llm(results)
_format_results_for_llm(entries) ==
    join("\n", [i \in 1..Len(entries) |-> FormatResult(entries[i])])

NoRet == [returned |-> FALSE]
NoResponse == LLMResponse(NoneV, NoCall)

\* run(task, max_iterations): lines 103-114, up to the while loop
RunStart(t, arg) ==
    /\ pc = "idle"
    /\ argMax' = arg
    /\ origTask' = t
    /\ max_iterations' = EffectiveMax(arg)
    /\ iterations' = 0
    /\ results' = <<>>
    /\ task' = t
    /\ conversation_history' =
           Append(conversation_history, [role |-> "user", content |-> t])
    /\ pc' = "while"
    /\ UNCHANGED <<generator, context, response, actions, idx, action_results,
                   ret, prompts, dispatched, exit, batches>>

\* a loop test letting one more iteration through
WhileTestInclusive ==
    /\ pc = "while"
    /\ IF iterations <= max_iterations
       THEN /\ iterations' = iterations + 1
            /\ context' = _build_context(conversation_history)
            /\ pc' = "generate"
            /\ UNCHANGED exit
       ELSE /\ pc' = "return"
            /\ exit' = [kind |-> "cap", msg |-> NoneV]
            /\ UNCHANGED <<iterations, context>>
    /\ UNCHANGED <<generator, argMax, origTask, max_iterations, results, task,
                   conversation_history, response, actions, idx, action_results,
                   ret, prompts, dispatched, batches>>

\* while iterations < max_iterations: iterations += 1; context =
\* self._build_context() (lines 116-125)
WhileTest ==
    /\ pc = "while"
    /\ IF iterations < max_iterations
       THEN /\ iterations' = iterations + 1
            /\ context' = _build_context(conversation_history)
            /\ pc' = "generate"
            /\ UNCHANGED exit
       ELSE /\ pc' = "return"
            /\ exit' = [kind |-> "cap", msg |-> NoneV]
            /\ UNCHANGED <<iterations, context>>
    /\ UNCHANGED <<generator, argMax, origTask, max_iterations, results, task,
                   conversation_history, response, actions, idx, action_results,
                   ret, prompts, dispatched, batches>>

\* the prompt of the generation call of this iteration (line 128)
Prompt == IF iterations = 1 THEN task ELSE context

\* the handler recording the error and going on with the next iteration
ExceptContinue(msg) ==
    /\ results' = Append(results,
           [error |-> "Error in iteration " \o IntStr(iterations) \o ": " \o msg,
            iteration |-> iterations])
    /\ exit' = [kind |-> "raised", msg |-> msg]
    /\ pc' = "while"

\* except Exception as e: record the error and break (lines 179-187)
ExceptBreak(msg) ==
    /\ results' = Append(results,
           [error |-> "Error in iteration " \o IntStr(iterations) \o ": " \o msg,
            iteration |-> iterations])
    /\ exit' = [kind |-> "raised", msg |-> msg]
    /\ pc' = "return"

\* a generation call that raises and leaves an assistant entry all the same
GenerateRaisesRecording ==
    /\ pc = "generate"
    /\ prompts' = Append(prompts, Prompt)
    /\ conversation_history' =
           Append(conversation_history, [role |-> "assistant", content |-> ""])
    /\ ExceptBreak("OpenAI API error: timeout")
    /\ UNCHANGED <<generator, argMax, origTask, context, max_iterations, iterations,
                   task, response, actions, idx, action_results, ret, dispatched,
                   batches>>

\* the generation call raises
GenerateRaises ==
    /\ pc = "generate"
    /\ prompts' = Append(prompts, Prompt)
    /\ ExceptBreak("OpenAI API error: timeout")
    /\ UNCHANGED <<generator, argMax, origTask, context, max_iterations, iterations, task,
                   conversation_history, response, actions, idx, action_results,
                   ret, dispatched, batches>>

\* the generation call returns resp and the generator turns it into a batch
\* (lines 125-146); an injected generator returns batch instead
GenerateReturns(resp, batch) ==
    /\ pc = "generate"
    /\ prompts' = Append(prompts, Prompt)
    /\ response' = resp
    /\ conversation_history' =
           Append(conversation_history,
                  [role |-> "assistant", content |-> resp.content])
    /\ LET gen == IF generator = "ActionGenerator"
                  THEN generate_from_llm_response(resp)
                  ELSE [raised |-> FALSE, exc |-> NoneV, actions |-> batch]
       IN IF gen.raised
          THEN /\ ExceptBreak(gen.exc)
               /\ UNCHANGED <<actions, idx, action_results>>
          ELSE /\ actions' = gen.actions
               /\ idx' = 1
               /\ action_results' = <<>>
               /\ pc' = IF gen.actions = <<>> THEN "return" ELSE "execute"
               /\ exit' = IF gen.actions = <<>>
                          THEN [kind |-> "no_actions", msg |-> NoneV] ELSE exit
               /\ UNCHANGED results
    /\ UNCHANGED <<generator, argMax, origTask, context, max_iterations, iterations, task,
                   ret, dispatched, batches>>

\* the loop running the shipped ActionGenerator on the service's response
GenerateFromResponse ==
    /\ generator = "ActionGenerator"
    /\ \E resp \in Responses : GenerateReturns(resp, <<>>)

\* the loop running a replaced generator that returns any batch
GenerateInjected ==
    /\ generator = "injected"
    /\ \E batch \in InjectedBatches :
          GenerateReturns(LLMResponse("ok", NoCall), batch)

\* responses that keep a run going: text, and a call of a registered tool
LongResponses ==
    { LLMResponse("just some notes", NoCall),
      LLMResponse("", Call("echo", "{\"text\": \"hi\"}")) }

\* the loop running the shipped ActionGenerator on one of those
GenerateLong ==
    /\ generator = "ActionGenerator"
    /\ \E resp \in LongResponses : GenerateReturns(resp, <<>>)

\* the same reporting success as the return after the loop does
FinishReturnCapped(entries) ==
    [returned |-> TRUE, success |-> iterations < max_iterations,
     iterations |-> iterations,
     results |-> results \o entries, final_message |-> response.content]

\* the same without the Finish action's own entry
FinishReturnWithoutOwnEntry(entries) ==
    [returned |-> TRUE, success |-> TRUE, iterations |-> iterations,
     results |-> results \o SubSeq(entries, 1, Len(entries) - 1),
     final_message |-> response.content]

\* the dict returned on a Finish action (lines 167-172)
FinishReturn(entries) ==
    [returned |-> TRUE, success |-> TRUE, iterations |-> iterations,
     results |-> results \o entries, final_message |-> response.content]

\* one pass of the body of `for action in actions` (lines 147-172)
ExecuteAction ==
    /\ pc = "execute"
    /\ idx <= Len(actions)
    /\ LET action == actions[idx]
           r == execute(_tools, action)
           entries == Append(action_results,
                             [action |-> action, result |-> r.result])
       IN /\ handlerCalls' = handlerCalls \o r.calls
          /\ dispatched' = Append(dispatched,
                 [iteration |-> iterations, index |-> idx, action |-> action])
          /\ action_results' = entries
          /\ IF action.type = FINISH
             THEN /\ ret' = FinishReturn(entries)
                  /\ pc' = "done"
                  /\ exit' = [kind |-> "finish", msg |-> NoneV]
                  /\ UNCHANGED idx
             ELSE /\ idx' = idx + 1
                  /\ UNCHANGED <<ret, pc, exit>>
    /\ UNCHANGED <<generator, argMax, origTask, context, max_iterations, iterations,
                   results, task, conversation_history, response, actions,
                   prompts, batches>>

\* the end of a batch putting its entries before those of earlier iterations
BatchEndInFront ==
    /\ pc = "execute"
    /\ idx > Len(actions)
    /\ results' = action_results \o results
    /\ task' = _format_results_for_llm(action_results)
    /\ batches' = Append(batches,
           [iteration |-> iterations, actions |-> actions,
            action_results |-> action_results])
    /\ pc' = "while"
    /\ UNCHANGED <<generator, argMax, origTask, context, max_iterations, iterations,
                   conversation_history, response, actions, idx, action_results,
                   ret, prompts, dispatched, exit>>

\* the batch is exhausted without a Finish action (lines 174-177)
BatchEnd ==
    /\ pc = "execute"
    /\ idx > Len(actions)
    /\ results' = results \o action_results
    /\ task' = _format_results_for_llm(action_results)
    /\ batches' = Append(batches,
           [iteration |-> iterations, actions |-> actions,
            action_results |-> action_results])
    /\ pc' = "while"
    /\ UNCHANGED <<generator, argMax, origTask, context, max_iterations, iterations,
                   conversation_history, response, actions, idx, action_results,
                   ret, prompts, dispatched, exit>>

\* the dict returned after the loop, the cap itself counting as success
LoopReturnInclusive ==
    [returned |-> TRUE,
     success |-> iterations <= max_iterations,
     iterations |-> iterations,
     results |-> results,
     message |-> IF iterations > max_iterations
                 THEN "Reached max iterations" ELSE "Task completed"]

\* the dict returned after the loop (lines 189-194)
LoopReturn ==
    [returned |-> TRUE,
     success |-> iterations < max_iterations,
     iterations |-> iterations,
     results |-> results,
     message |-> IF iterations >= max_iterations
                 THEN "Reached max iterations" ELSE "Task completed"]

\* return after the loop
Return ==
    /\ pc = "return"
    /\ ret' = LoopReturn
    /\ pc' = "done"
    /\ UNCHANGED <<generator, argMax, origTask, context, max_iterations, iterations,
                   results, task, conversation_history, response, actions, idx,
                   action_results, prompts, dispatched, exit, batches>>

(***************************************************************************)
(* Coroutines sharing one instance                                         *)
(***************************************************************************)
\* the callers of one MCPClient, each a coroutine of the same event loop
Callers == {1, 2}

NoCaller == [pc |-> "idle", wrapper |-> "none", id |-> NoneV, after |-> 0]

\* a caller runs a wrapper up to its `await self.send_request(request)`:
\* _next_id() and the construction of the request run without suspension
CallerBuild(c, w) ==
    /\ callers[c].pc = "idle"
    /\ request_id_counter < MaxCallerRequests
    /\ LET nid == _next_id(request_id_counter)
           req == MCPRequest(nid.id, ClientMethods[w], WrapperParams(w))
       IN /\ request_id_counter' = nid.counter
          /\ requests' = Append(requests, req.id)
          /\ callers' = [callers EXCEPT ![c] =
                 [pc |-> "awaiting", wrapper |-> w, id |-> req.id,
                  after |-> nid.counter]]
    /\ UNCHANGED <<transport, server_url, clientOut>>

\* the send of a suspended caller completes and its wrapper returns
CallerResume(c) ==
    /\ callers[c].pc = "awaiting"
    /\ LET w == callers[c].wrapper
           req == MCPRequest(callers[c].id, ClientMethods[w], WrapperParams(w))
       IN \E sent \in send_request(transport, server_url, req) :
             clientOut' = [wrapper |-> w, id |-> req.id, sent |-> sent,
                           out |-> WrapperReturn(w, sent)]
    /\ callers' = [callers EXCEPT ![c].pc = "idle"]
    /\ UNCHANGED <<transport, server_url, request_id_counter, requests>>

\* the tasks given to the runs sharing one CodingAgent, by run
SharedTasks == <<"do it", "do that">>

\* the locals of the run whose coroutine is executing
Locals ==
    [pc |-> pc, argMax |-> argMax, origTask |-> origTask,
     max_iterations |-> max_iterations, iterations |-> iterations,
     results |-> results, task |-> task, context |-> context,
     response |-> response, actions |-> actions, idx |-> idx,
     action_results |-> action_results, ret |-> ret, prompts |-> prompts,
     dispatched |-> dispatched, exit |-> exit, batches |-> batches]

\* the locals of a run that was not yet invoked
IdleLocals ==
    [pc |-> "idle", argMax |-> [given |-> FALSE, value |-> 0],
     origTask |-> NoneV, max_iterations |-> 0, iterations |-> 0,
     results |-> <<>>, task |-> NoneV, context |-> NoneV,
     response |-> NoResponse, actions |-> <<>>, idx |-> 1,
     action_results |-> <<>>, ret |-> NoRet, prompts |-> <<>>,
     dispatched |-> <<>>, exit |-> [kind |-> "none", msg |-> NoneV],
     batches |-> <<>>]

\* the event loop goes on with the other run: the executing run is suspended
\* in `await self.llm_provider.generate(...)` (line 127) or in
\* `await self.action_executor.execute(...)` (line 151), or it returned; the
\* instance (conversation_history, generator, registry) is shared
Switch ==
    /\ \/ pc = "generate"
       \/ pc = "execute" /\ idx <= Len(actions)
       \/ pc = "done"
    /\ parked.pc # "done"
    /\ parked' = Locals
    /\ current' = 3 - current
    /\ pc' = parked.pc
    /\ argMax' = parked.argMax
    /\ origTask' = parked.origTask
    /\ max_iterations' = parked.max_iterations
    /\ iterations' = parked.iterations
    /\ results' = parked.results
    /\ task' = parked.task
    /\ context' = parked.context
    /\ response' = parked.response
    /\ actions' = parked.actions
    /\ idx' = parked.idx
    /\ action_results' = parked.action_results
    /\ ret' = parked.ret
    /\ prompts' = parked.prompts
    /\ dispatched' = parked.dispatched
    /\ exit' = parked.exit
    /\ batches' = parked.batches
    /\ UNCHANGED <<generator, conversation_history, callers>>

\* responses given to the runs sharing one agent: text, a call of a
\* registered tool, a finish action
SharedResponses ==
    LongResponses \cup { LLMResponse(FinishJson, NoCall) }

\* the loop of the executing run on one of those
GenerateShared ==
    /\ generator = "ActionGenerator"
    /\ \E resp \in SharedResponses : GenerateReturns(resp, <<>>)

(***************************************************************************)
(* Specifications                                                          *)
(***************************************************************************)
InitRegistryEmpty ==
    /\ _tools = EmptyMap
    /\ _tools_order = <<>>
    /\ registrations = <<>>
    /\ handlerCalls = <<>>
    /\ regCall = NoRegCall
    /\ regOps = 0

InitClient ==
    /\ transport \in {"none", "injected"}
    /\ server_url \in {NoneV, "http://localhost:8000"}
    /\ request_id_counter = 0
    /\ requests = <<>>
    /\ clientOut = NoClientOut

InitServer ==
    /\ tool_registry = "none"
    /\ resources = <<>>
    /\ server_tools = <<>>
    /\ srvCall = NoSrvCall
    /\ srvOps = 0

InitGenerator ==
    /\ genIn = NoResponse
    /\ genOut = NoGenOut

InitExecutor ==
    /\ execOut = NoExecOut
    /\ execOps = 0

InitCoroutines ==
    /\ callers = [c \in Callers |-> NoCaller]
    /\ parked = IdleLocals
    /\ current = 1

InitAgent ==
    /\ InitServer
    /\ InitGenerator
    /\ InitExecutor
    /\ InitCoroutines
    /\ pc = "idle"
    /\ generator \in {"ActionGenerator", "injected"}
    /\ argMax = [given |-> FALSE, value |-> 0]
    /\ origTask = NoneV
    /\ context = NoneV
    /\ max_iterations = 0
    /\ iterations = 0
    /\ results = <<>>
    /\ task = NoneV
    /\ conversation_history = <<>>
    /\ response = NoResponse
    /\ actions = <<>>
    /\ idx = 1
    /\ action_results = <<>>
    /\ ret = NoRet
    /\ prompts = <<>>
    /\ dispatched = <<>>
    /\ exit = [kind |-> "none", msg |-> NoneV]
    /\ batches = <<>>

\* a constructed CodingAgent: its registry holds the registered tools
Init ==
    /\ _tools = AgentTools
    /\ _tools_order = <<"echo", "boom">>
    /\ registrations = [i \in 1..2 |-> [name |-> _tools_order[i],
                                         handler |-> AgentTools[_tools_order[i]]]]
    /\ handlerCalls = <<>>
    /\ regCall = NoRegCall
    /\ regOps = 0
    /\ InitClient
    /\ transport = "none"
    /\ server_url = NoneV
    /\ InitAgent

Tasks == {"do it"}

Next ==
    \/ /\ \E t \in Tasks, arg \in MaxIterArgs : RunStart(t, arg)
       /\ UNCHANGED <<registryVars, clientVars, serverVars, generatorVars, executorVars, sharedVars>>
    \/ WhileTest /\ UNCHANGED <<registryVars, clientVars, serverVars, generatorVars, executorVars, sharedVars>>
    \/ GenerateRaises /\ UNCHANGED <<registryVars, clientVars, serverVars, generatorVars, executorVars, sharedVars>>
    \/ GenerateFromResponse /\ UNCHANGED <<registryVars, clientVars, serverVars, generatorVars, executorVars, sharedVars>>
    \/ GenerateInjected /\ UNCHANGED <<registryVars, clientVars, serverVars, generatorVars, executorVars, sharedVars>>
    \/ ExecuteAction /\ UNCHANGED <<_tools, _tools_order, registrations, regCall, regOps, clientVars, serverVars, generatorVars, executorVars, sharedVars>>
    \/ BatchEnd /\ UNCHANGED <<registryVars, clientVars, serverVars, generatorVars, executorVars, sharedVars>>
    \/ Return /\ UNCHANGED <<registryVars, clientVars, serverVars, generatorVars, executorVars, sharedVars>>

\* one run of a CodingAgent
Spec == Init /\ [][Next]_vars

\* the same run when every awaited call returns or raises and the
\* interpreter goes on with the next statement
SpecLive == Init /\ [][Next]_vars /\ WF_vars(Next)


\* a ToolRegistry on its own: registrations and invocations
InitRegistry ==
    /\ InitRegistryEmpty
    /\ InitClient
    /\ transport = "none"
    /\ server_url = NoneV
    /\ InitAgent
    /\ generator = "ActionGenerator"

NextRegistry ==
    \/ /\ \E n \in {"echo", "boom"}, h \in Handlers : Register(n, h)
       /\ UNCHANGED <<clientVars, agentVars, serverVars, generatorVars, executorVars, sharedVars>>
    \/ /\ \E n \in ToolNames, kw \in KwargsSet : ExecuteTool(n, kw)
       /\ UNCHANGED <<clientVars, agentVars, serverVars, generatorVars, executorVars, sharedVars>>
    \/ /\ \E n \in ToolNames : Get(n)
       /\ UNCHANGED <<clientVars, agentVars, serverVars, generatorVars, executorVars, sharedVars>>
    \/ /\ ListTools
       /\ UNCHANGED <<clientVars, agentVars, serverVars, generatorVars, executorVars, sharedVars>>

SpecRegistry == InitRegistry /\ [][NextRegistry]_vars

\* an MCPClient on its own: any sequence of wrapper calls
InitMCPClient ==
    /\ InitRegistryEmpty
    /\ InitClient
    /\ InitAgent
    /\ generator = "ActionGenerator"

NextClient ==
    \/ initialize /\ UNCHANGED <<registryVars, agentVars, serverVars, generatorVars, executorVars, sharedVars>>
    \/ list_resources /\ UNCHANGED <<registryVars, agentVars, serverVars, generatorVars, executorVars, sharedVars>>
    \/ read_resource /\ UNCHANGED <<registryVars, agentVars, serverVars, generatorVars, executorVars, sharedVars>>
    \/ list_tools /\ UNCHANGED <<registryVars, agentVars, serverVars, generatorVars, executorVars, sharedVars>>
    \/ call_tool /\ UNCHANGED <<registryVars, agentVars, serverVars, generatorVars, executorVars, sharedVars>>

SpecClient == InitMCPClient /\ [][NextClient]_vars

\* an MCPServer on its own, with or without a bound registry holding one tool
\* of every behaviour
ServerRegistry == [n \in Handlers |-> n]

InitMCPServer ==
    /\ _tools = ServerRegistry
    /\ _tools_order = <<"echo", "boom", "fail", "void">>
    /\ registrations = [i \in 1..4 |-> [name |-> _tools_order[i],
                                         handler |-> ServerRegistry[_tools_order[i]]]]
    /\ handlerCalls = <<>>
    /\ regCall = NoRegCall
    /\ regOps = 0
    /\ InitClient
    /\ transport = "none"
    /\ server_url = NoneV
    /\ pc = "idle"
    /\ generator = "ActionGenerator"
    /\ argMax = [given |-> FALSE, value |-> 0]
    /\ origTask = NoneV
    /\ context = NoneV
    /\ max_iterations = 0
    /\ iterations = 0
    /\ results = <<>>
    /\ task = NoneV
    /\ conversation_history = <<>>
    /\ response = NoResponse
    /\ actions = <<>>
    /\ idx = 1
    /\ action_results = <<>>
    /\ ret = NoRet
    /\ prompts = <<>>
    /\ dispatched = <<>>
    /\ exit = [kind |-> "none", msg |-> NoneV]
    /\ batches = <<>>
    /\ InitGenerator
    /\ InitExecutor
    /\ InitCoroutines
    /\ tool_registry \in {"none", "bound"}
    /\ resources = <<>>
    /\ server_tools = <<>>
    /\ srvCall = NoSrvCall
    /\ srvOps = 0

NextServer ==
    \/ /\ \E r \in MCPResources : register_resource(r)
       /\ UNCHANGED <<_tools, _tools_order, registrations, regCall, regOps, clientVars, agentVars, generatorVars, executorVars, sharedVars>>
    \/ /\ \E t \in MCPTools : register_tool(t)
       /\ UNCHANGED <<_tools, _tools_order, registrations, regCall, regOps, clientVars, agentVars, generatorVars, executorVars, sharedVars>>
    \/ /\ \/ \E request \in EmptyParamRequests : HandleRequest(request)
          \/ \E request \in ReadRequests : HandleRequest(request)
          \/ \E id \in RequestIds, i \in DOMAIN ToolCallParams :
                 HandleRequest(MCPRequest(id, "tools/call", ToolCallParams[i]))
       /\ UNCHANGED <<_tools, _tools_order, registrations, regCall, regOps, clientVars, agentVars, generatorVars, executorVars, sharedVars>>

SpecServer == InitMCPServer /\ [][NextServer]_vars

\* an ActionGenerator on its own: one response, one call
InitActionGenerator ==
    /\ InitRegistryEmpty
    /\ InitClient
    /\ transport = "none"
    /\ server_url = NoneV
    /\ InitServer
    /\ pc = "idle"
    /\ generator = "ActionGenerator"
    /\ argMax = [given |-> FALSE, value |-> 0]
    /\ origTask = NoneV
    /\ context = NoneV
    /\ max_iterations = 0
    /\ iterations = 0
    /\ results = <<>>
    /\ task = NoneV
    /\ conversation_history = <<>>
    /\ response = NoResponse
    /\ actions = <<>>
    /\ idx = 1
    /\ action_results = <<>>
    /\ ret = NoRet
    /\ prompts = <<>>
    /\ dispatched = <<>>
    /\ exit = [kind |-> "none", msg |-> NoneV]
    /\ batches = <<>>
    /\ genIn \in { LLMResponse(content, call) :
                       content \in GeneratorContents, call \in GeneratorCalls }
    /\ genOut = NoGenOut
    /\ InitExecutor
    /\ InitCoroutines

NextGenerator ==
    GenerateActions
        /\ UNCHANGED <<registryVars, clientVars, agentVars, serverVars, executorVars, sharedVars>>

SpecGenerator == InitActionGenerator /\ [][NextGenerator]_vars

\* one run of a CodingAgent asked for MaxLongIter iterations
InitLong ==
    /\ Init
    /\ generator = "ActionGenerator"

NextLong ==
    \/ /\ \E t \in Tasks : RunStart(t, [given |-> TRUE, value |-> MaxLongIter])
       /\ UNCHANGED <<registryVars, clientVars, serverVars, generatorVars, executorVars, sharedVars>>
    \/ WhileTest /\ UNCHANGED <<registryVars, clientVars, serverVars, generatorVars, executorVars, sharedVars>>
    \/ GenerateRaises /\ UNCHANGED <<registryVars, clientVars, serverVars, generatorVars, executorVars, sharedVars>>
    \/ GenerateLong /\ UNCHANGED <<registryVars, clientVars, serverVars, generatorVars, executorVars, sharedVars>>
    \/ ExecuteAction /\ UNCHANGED <<_tools, _tools_order, registrations, regCall, regOps, clientVars, serverVars, generatorVars, executorVars, sharedVars>>
    \/ BatchEnd /\ UNCHANGED <<registryVars, clientVars, serverVars, generatorVars, executorVars, sharedVars>>
    \/ Return /\ UNCHANGED <<registryVars, clientVars, serverVars, generatorVars, executorVars, sharedVars>>

SpecLong == InitLong /\ [][NextLong]_vars

\* an ActionExecutor on its own, over a registry holding one tool of every
\* behaviour and a protocol client of every configuration
InitActionExecutor ==
    /\ _tools = ServerRegistry
    /\ _tools_order = <<"echo", "boom", "fail", "void">>
    /\ registrations = [i \in 1..4 |-> [name |-> _tools_order[i],
                                         handler |-> ServerRegistry[_tools_order[i]]]]
    /\ handlerCalls = <<>>
    /\ regCall = NoRegCall
    /\ regOps = 0
    /\ InitClient
    /\ InitAgent
    /\ generator = "ActionGenerator"

NextExecutor ==
    /\ \E i \in DOMAIN ExecutorActions : Dispatch(i)
    /\ UNCHANGED <<agentVars, serverVars, generatorVars, sharedVars>>

SpecExecutor == InitActionExecutor /\ [][NextExecutor]_vars

\* one MCPClient used by two callers of the same event loop
NextCallers ==
    \/ /\ \E c \in Callers, w \in {"list_tools", "call_tool"} : CallerBuild(c, w)
       /\ UNCHANGED <<registryVars, agentVars, serverVars, generatorVars, executorVars, parked, current>>
    \/ /\ \E c \in Callers : CallerResume(c)
       /\ UNCHANGED <<registryVars, agentVars, serverVars, generatorVars, executorVars, parked, current>>

SpecCallers == InitMCPClient /\ [][NextCallers]_vars

\* a dispatch that binds the name of the tool it ran to another handler
ExecuteSharedRebinding ==
    /\ ExecuteAction
    /\ _tools' = IF actions[idx].type = TOOL_CALL /\ actions[idx].name \in DOMAIN _tools
                 THEN [_tools EXCEPT ![actions[idx].name] = "void"]
                 ELSE _tools
    /\ UNCHANGED <<_tools_order, registrations, regCall, regOps>>

\* the dispatch of an action by a run sharing the agent: execute looks the
\* tool up and runs its handler, the registry is only read
ExecuteShared ==
    /\ ExecuteAction
    /\ UNCHANGED <<_tools, _tools_order, registrations, regCall, regOps>>

\* two runs on one CodingAgent, one after the other or interleaved at the
\* awaits of run
NextSharedRuns ==
    \/ /\ RunStart(SharedTasks[current], [given |-> TRUE, value |-> MaxSharedIter])
       /\ UNCHANGED <<registryVars, clientVars, serverVars, generatorVars, executorVars, sharedVars>>
    \/ WhileTest /\ UNCHANGED <<registryVars, clientVars, serverVars, generatorVars, executorVars, sharedVars>>
    \/ GenerateRaises /\ UNCHANGED <<registryVars, clientVars, serverVars, generatorVars, executorVars, sharedVars>>
    \/ GenerateShared /\ UNCHANGED <<registryVars, clientVars, serverVars, generatorVars, executorVars, sharedVars>>
    \/ ExecuteShared /\ UNCHANGED <<clientVars, serverVars, generatorVars, executorVars, sharedVars>>
    \/ BatchEnd /\ UNCHANGED <<registryVars, clientVars, serverVars, generatorVars, executorVars, sharedVars>>
    \/ Return /\ UNCHANGED <<registryVars, clientVars, serverVars, generatorVars, executorVars, sharedVars>>
    \/ Switch /\ UNCHANGED <<registryVars, clientVars, serverVars, generatorVars, executorVars>>

SpecSharedRuns == InitLong /\ [][NextSharedRuns]_vars




(***************************************************************************)
(* Properties of the control loop                                          *)
(***************************************************************************)
HasFinish(batch) == \E k \in 1..Len(batch) : batch[k].type = FINISH

\* position of the first Finish action of a batch
FirstFinish(batch) ==
    CHOOSE k \in 1..Len(batch) :
        /\ batch[k].type = FINISH
        /\ \A j \in 1..(k - 1) : batch[j].type # FINISH

\* the dispatches of iteration n, in order
DispatchedIn(n) ==
    LET InN(d) == d.iteration = n IN SelectSeq(dispatched, InN)

\* the run returned through the Finish path
ReturnedOnFinish == pc = "done" /\ "final_message" \in DOMAIN ret

\* the run returned after the loop
ReturnedAfterLoop == pc = "done" /\ "message" \in DOMAIN ret

\* C1: when the batch of an iteration has its (first) Finish action at
\* position k, the loop dispatches the actions 1..k of the batch in order and
\* none after k; once the Finish action is dispatched the run is over (no
\* further generation call, no further dispatch) and it returned
\* success = true, also when iterations = max_iterations.
C1_FinishStopsRun ==
    (pc \in {"execute", "done"} /\ HasFinish(actions)) =>
        LET k == FirstFinish(actions)
            cur == DispatchedIn(iterations)
        IN /\ Len(cur) <= k
           /\ \A i \in 1..Len(cur) : cur[i].index = i /\ cur[i].action = actions[i]
           /\ Len(cur) = k <=> pc = "done"
           /\ pc = "done" =>
                 /\ ret.returned /\ ret.success = TRUE
                 /\ ret.iterations = iterations
                 /\ Len(prompts) = iterations
                 /\ dispatched[Len(dispatched)].action = actions[k]

\* a batch whose Finish action is second ended a run in its last iteration
C1_Witness ==
    /\ ReturnedOnFinish
    /\ Len(actions) = 2 /\ actions[1].type = TOOL_CALL /\ actions[2].type = FINISH
    /\ iterations = max_iterations
    /\ iterations >= 2

\* C2: a run whose generator returns no action in iteration n stops there and
\* returns success = true with the message "Task completed", for every n up
\* to max_iterations.
C2_NoActionsIsSuccess ==
    (pc = "done" /\ exit.kind = "no_actions") =>
        /\ ret.success = TRUE
        /\ ret.message = "Task completed"
        /\ Len(prompts) = iterations

ResultText(entry) ==
    IF entry.result.success THEN PyStr(entry.result.result) ELSE entry.result.error

\* C4: the result of every action dispatched in iteration n is part of the
\* prompt of the generation call of iteration n+1: the prompt contains the
\* summary line of the result, or at least the text the result carries.
C4_ResultsReachNextPrompt ==
    \A b \in 1..Len(batches) :
        LET n == batches[b].iteration IN
        n + 1 <= Len(prompts) =>
            \A i \in 1..Len(batches[b].action_results) :
                LET entry == batches[b].action_results[i] IN
                \/ Contains(prompts[n + 1], FormatResult(entry))
                \/ Contains(prompts[n + 1], ResultText(entry))

\* C5: a run called with an explicit max_iterations = N >= 0 makes at most N
\* generation calls and counts at most N iterations.
C5_ExplicitCapBoundsLoop ==
    (pc # "idle" /\ argMax.given) =>
        /\ Len(prompts) <= argMax.value
        /\ iterations <= argMax.value

\* C6: when iteration n raises, the loop stops without retry: the run only
\* returns from there (no generation call, no dispatch follows), and the last
\* entry of results is {error: "Error in iteration <n>: <message>",
\* iteration: n}.
C6_RaiseStopsRun ==
    exit.kind = "raised" =>
        LET record == [error |-> "Error in iteration " \o IntStr(iterations)
                                    \o ": " \o exit.msg,
                       iteration |-> iterations]
        IN /\ pc \in {"return", "done"}
           /\ Len(prompts) = iterations
           /\ DispatchedIn(iterations) = <<>>
           /\ Len(results) >= 1 /\ results[Len(results)] = record
           /\ pc = "done" =>
                 /\ Len(ret.results) >= 1
                 /\ ret.results[Len(ret.results)] = record
                 /\ ret.iterations = iterations

\* the second iteration raised after a first one that dispatched an action
C6_Witness ==
    /\ pc = "done"
    /\ exit.kind = "raised"
    /\ iterations = 2
    /\ Len(dispatched) = 1
    /\ ret.results[2].error = "Error in iteration 2: " \o exit.msg

\* the entry the loop records for a dispatched action
EntryOf(action) == [action |-> action, result |-> execute(_tools, action).result]

\* a run stopped on the Finish action of a batch [ToolCall(A), Finish]
StoppedOnToolCallThenFinish ==
    /\ ReturnedOnFinish
    /\ Len(actions) = 2
    /\ actions[1].type = TOOL_CALL
    /\ actions[2].type = FINISH

\* C7 as stated: the returned results are the pairs of the earlier iterations
\* followed by A's pair alone, without an entry for the Finish action.
C7_ResultsWithoutFinishEntry ==
    StoppedOnToolCallThenFinish =>
        /\ ret.results = results \o <<EntryOf(actions[1])>>
        /\ ret.success = TRUE
        /\ ret.final_message = response.content

\* C7 amended: the returned results are the pairs of the earlier iterations
\* followed by A's pair and then the Finish action's own pair; success = true
\* and final_message is the raw content of the iteration's response.
C7_ResultsEndWithFinishEntry ==
    StoppedOnToolCallThenFinish =>
        /\ ret.results = results \o <<EntryOf(actions[1]), EntryOf(actions[2])>>
        /\ ret.success = TRUE
        /\ ret.final_message = response.content
        /\ conversation_history[Len(conversation_history)].content
               = ret.final_message

\* a second iteration's batch [ToolCall(A), Finish] ended the run
C7_Witness ==
    /\ StoppedOnToolCallThenFinish
    /\ iterations = 2
    /\ Len(results) >= 1
    /\ Len(ret.results) = Len(results) + 2

\* C19: the shipped generator hands the loop an empty list exactly when the
\* response has no function call and empty content; the loop then records no
\* error, executes no action and ends the run as finished (success = true,
\* "Task completed").
C19_EmptyListFinishesRun ==
    generator = "ActionGenerator" =>
        /\ exit.kind = "no_actions"
              <=> (~response.function_call.present /\ response.content = "")
        /\ pc = "execute" => actions # <<>>
        /\ exit.kind = "no_actions" =>
              /\ actions = <<>>
              /\ pc \in {"return", "done"}
              /\ DispatchedIn(iterations) = <<>>
              /\ \A i \in 1..Len(results) : "error" \notin DOMAIN results[i]
              /\ pc = "done" =>
                    /\ ret.success = TRUE
                    /\ ret.message = "Task completed"

\* the entries first..Len(history) of a history, each as ROLE: content,
\* separated by blank lines
RECURSIVE RenderFrom(_, _)
RenderFrom(history, first) ==
    IF first > Len(history) THEN ""
    ELSE LET entry == history[first]
             line == (IF entry.role = "user" THEN "USER" ELSE "ASSISTANT")
                         \o ": " \o entry.content
         IN IF first = Len(history) THEN line
            ELSE line \o "\n\n" \o RenderFrom(history, first + 1)

C21_RunTerminates ==
    /\ <>(pc = "done")
    /\ [](pc # "idle" => iterations <= max_iterations /\ Len(prompts) <= max_iterations)
    /\ [](pc = "done" =>
            /\ ret.returned
            /\ ret.iterations = iterations
            /\ exit.kind \in {"finish", "no_actions", "cap", "raised"}
            /\ exit.kind = "cap" => iterations = max_iterations)
    /\ [](pc \in {"while", "generate", "execute"} => ~ret.returned)
    /\ [][pc # "done"]_vars

\* a run that raised in its last allowed iteration and returned
C21_Witness ==
    /\ pc = "done"
    /\ ret.returned
    /\ exit.kind = "raised"
    /\ max_iterations = MaxIterArg
    /\ iterations = max_iterations

\* the {action, result} entries of a results list, in order
PairsOf(entries) ==
    LET IsPair(e) == "action" \in DOMAIN e IN SelectSeq(entries, IsPair)

\* C22: the actions of a batch are dispatched in order, one after the other
\* and each once; the result of an action is recorded before the next one is
\* dispatched; the generation call of iteration n+1 is made only after the
\* whole batch of iteration n was dispatched; the {action, result} entries
\* returned are the dispatched actions in dispatch order.
C22_SequentialDispatch ==
    /\ \A i \in 1..Len(dispatched) :
          IF i > 1 /\ dispatched[i - 1].iteration = dispatched[i].iteration
          THEN dispatched[i].index = dispatched[i - 1].index + 1
          ELSE /\ dispatched[i].index = 1
               /\ i > 1 => dispatched[i - 1].iteration < dispatched[i].iteration
    /\ pc = "execute" =>
          /\ Len(action_results) = idx - 1
          /\ Len(DispatchedIn(iterations)) = idx - 1
          /\ \A i \in 1..(idx - 1) :
                action_results[i].action.name = actions[i].name
    /\ \A b \in 1..Len(batches) :
          /\ batches[b].iteration = b
          /\ Len(DispatchedIn(b)) = Len(batches[b].actions)
          /\ Len(batches[b].action_results) = Len(batches[b].actions)
    /\ pc = "generate" => Len(batches) = iterations - 1
    /\ Len(prompts) <= Len(batches) + 1
    /\ pc = "done" =>
          LET pairs == PairsOf(ret.results) IN
          /\ Len(pairs) = Len(dispatched)
          /\ \A i \in 1..Len(pairs) :
                /\ pairs[i].action.type = dispatched[i].action.type
                /\ pairs[i].action.name = dispatched[i].action.name
                /\ pairs[i].action = dispatched[i].action

\* a returned run of two iterations whose batches held different actions
C22_Witness ==
    /\ pc = "done"
    /\ Len(batches) = 2
    /\ Len(batches[1].actions) = 2
    /\ Len(batches[2].actions) = 1
    /\ batches[1].actions[1].name # batches[2].actions[1].name
    /\ Len(PairsOf(ret.results)) = 3

(***************************************************************************)
(* Properties of the protocol client                                       *)
(***************************************************************************)
\* value of a decimal string, the inverse reading of an id
RECURSIVE DecimalValue(_)
DecimalValue(text) ==
    IF Len(text) = 0 THEN 0
    ELSE LET last == SubSeq(text, Len(text), Len(text))
             d == CHOOSE n \in 0..9 : Digit(n) = last
         IN 10 * DecimalValue(SubSeq(text, 1, Len(text) - 1)) + d

\* C8: the k-th request built by a client instance carries the id str(k),
\* whatever wrappers were called and whether or not the sends succeeded; the
\* ids start at "1" and their values increase strictly.
C8_IdsCountRequests ==
    /\ request_id_counter = Len(requests)
    /\ \A k \in 1..Len(requests) : requests[k] = IntStr(k)
    /\ Len(requests) >= 1 => requests[1] = "1"
    /\ \A k \in 1..(Len(requests) - 1) :
           DecimalValue(requests[k]) < DecimalValue(requests[k + 1])
    /\ clientOut.wrapper # "none" => clientOut.id = IntStr(Len(requests))

\* the tenth request, built by call_tool, whose send raised
C8_Witness ==
    /\ Len(requests) = 10
    /\ requests[10] = "10"
    /\ clientOut.wrapper = "call_tool"
    /\ clientOut.sent.raised

\* the ValueError of send_request's last branch
ConfigurationError == "No transport or server URL configured"

\* C15: on a client without injected transport every call fails with the
\* configuration error, whether or not a server URL was given: send never
\* returns a response.
C15_NoTransportAlwaysFails ==
    (clientOut.wrapper # "none" /\ transport = "none") =>
        /\ clientOut.sent.raised
        /\ clientOut.sent.exc = ConfigurationError
        /\ clientOut.out = clientOut.sent

\* C15 as the code has it: without transport and without server URL every
\* call fails with the configuration error; without transport but with a
\* server URL send returns the placeholder {result: None, error: "HTTP
\* transport not implemented"} and no call fails with the configuration error.
C15_NoTransportNoUrlFails ==
    (clientOut.wrapper # "none" /\ transport = "none") =>
        IF server_url = NoneV
        THEN /\ clientOut.sent.raised
             /\ clientOut.sent.exc = ConfigurationError
             /\ clientOut.out = clientOut.sent
        ELSE /\ ~clientOut.sent.raised
             /\ clientOut.sent.value =
                    [result |-> PyNone,
                     error |-> PyText("HTTP transport not implemented")]
             /\ clientOut.out.raised => clientOut.out.exc # ConfigurationError

C15_Witness ==
    /\ transport = "none"
    /\ server_url = NoneV
    /\ clientOut.wrapper = "read_resource"
    /\ clientOut.out.raised
    /\ clientOut.out.exc = ConfigurationError

\* C16: a call on a client with a transport returns data only from a
\* response whose id equals the id of the request the call sent.
C16_ResponseIdMatchesRequest ==
    (clientOut.wrapper # "none" /\ transport = "injected"
        /\ ~clientOut.sent.raised /\ ~clientOut.out.raised) =>
        clientOut.sent.value.id = clientOut.id

(***************************************************************************)
(* Properties of the capability registry                                   *)
(***************************************************************************)
\* the handler of the most recent registration under a name
LastRegistered(name) ==
    LET k == CHOOSE i \in 1..Len(registrations) :
                 /\ registrations[i].name = name
                 /\ \A j \in (i + 1)..Len(registrations) : registrations[j].name # name
    IN registrations[k].handler

RegisteredNames == {registrations[i].name : i \in 1..Len(registrations)}

\* C23: after any sequence of register calls the registry holds one entry per
\* distinct name registered: get(name) gives the handler registered last
\* under that name and nothing for a name never registered, and list_tools()
\* gives one schema per distinct name.
C23_LastRegisteredWins ==
    /\ DOMAIN _tools = RegisteredNames
    /\ \A name \in RegisteredNames : _tools[name] = LastRegistered(name)
    /\ regCall.op = "get" =>
          /\ ~regCall.out.raised
          /\ Len(regCall.out.value) = IF regCall.name \in RegisteredNames THEN 1 ELSE 0
          /\ regCall.name \in RegisteredNames =>
                regCall.out.value[1] = LastRegistered(regCall.name)
    /\ regCall.op = "list_tools" =>
          /\ ~regCall.out.raised
          /\ Len(regCall.out.value) = Cardinality(RegisteredNames)
          /\ \A name \in RegisteredNames :
                Cardinality({i \in 1..Len(regCall.out.value) :
                                regCall.out.value[i].name = name}) = 1

\* a name registered twice with different handlers, then looked up
C23_Witness ==
    /\ regCall.op = "get"
    /\ Len(registrations) = 2
    /\ registrations[1].name = regCall.name
    /\ registrations[2].name = regCall.name
    /\ registrations[1].handler # registrations[2].handler
    /\ regCall.out.value = <<registrations[2].handler>>

\* C24: every schema list_tools() returns carries the name and description
\* of its tool, one property per declared parameter, and a required list
\* holding, in declaration order, the names of exactly the parameters marked
\* required.
C24_SchemaReproducesDescriptor ==
    regCall.op = "list_tools" =>
        /\ Len(regCall.out.value) = Len(_tools_order)
        /\ \A i \in 1..Len(regCall.out.value) :
              LET schema == regCall.out.value[i]
                  tool == Tool(_tools_order[i], _tools[_tools_order[i]])
                  declared == tool.parameters
                  marked == {k \in 1..Len(declared) : declared[k].required}
              IN /\ schema.name = tool.name
                 /\ schema.description = tool.description
                 /\ DOMAIN schema.parameters.properties =
                        {declared[k].name : k \in 1..Len(declared)}
                 /\ Cardinality(DOMAIN schema.parameters.properties) = Len(declared)
                 /\ \A k \in 1..Len(declared) :
                        /\ schema.parameters.properties[declared[k].name].type
                               = declared[k].type
                        /\ schema.parameters.properties[declared[k].name].description
                               = declared[k].description
                 /\ Len(schema.parameters.required) = Cardinality(marked)
                 /\ \A k \in marked :
                        \E r \in 1..Len(schema.parameters.required) :
                            /\ schema.parameters.required[r] = declared[k].name
                            /\ r = Cardinality({m \in marked : m <= k})

\* the schema of a tool with an optional parameter ahead of two required ones
C24_Witness ==
    /\ regCall.op = "list_tools"
    /\ Len(regCall.out.value) >= 1
    /\ _tools[_tools_order[1]] = "void"
    /\ regCall.out.value[1].parameters.required = <<"target", "mode">>

\* C9: execute_tool with a name that is not registered returns
\* {success: false, error: "Tool '<name>' not found"} for every argument
\* mapping, does not raise, calls no handler and leaves the registry unchanged.
C9_UnknownToolReported ==
    (regCall.op = "execute_tool" /\ regCall.name \notin DOMAIN regCall.toolsBefore) =>
        /\ ~regCall.out.raised
        /\ regCall.out.value =
               [success |-> FALSE,
                error |-> "Tool '" \o regCall.name \o "' not found"]
        /\ handlerCalls = regCall.callsBefore
        /\ _tools = regCall.toolsBefore

\* C10: execute_tool with a registered name never raises, for every argument
\* mapping (also one holding the key `name`): it calls the handler exactly
\* once, returns what the handler returns, and returns
\* {success: false, error: "Tool execution failed: <message>"} if it raises.
C10_RegisteredToolNeverRaises ==
    (regCall.op = "execute_tool" /\ regCall.name \in DOMAIN regCall.toolsBefore) =>
        LET handler == regCall.toolsBefore[regCall.name]
            h == ToolExecute(handler, regCall.kwargs)
        IN /\ ~regCall.out.raised
           /\ handlerCalls = Append(regCall.callsBefore,
                                    [tool |-> regCall.name, handler |-> handler,
                                     kwargs |-> regCall.kwargs])
           /\ ~h.raised => regCall.out.value = h.value
           /\ h.raised => regCall.out.value =
                              [success |-> FALSE,
                               error |-> "Tool execution failed: " \o h.exc]

(***************************************************************************)
(* Properties of the protocol server                                       *)
(***************************************************************************)
\* the methods handle_request has a branch for
DispatchedMethods == {"initialize", "resources/list", "tools/list", "tools/call"}

\* the method namespace of the protocol
ProtocolMethods ==
    {"initialize", "resources/list", "resources/read", "tools/list", "tools/call"}

\* the error code of a returned response, 0 when error is unset
ErrorCode(answer) ==
    IF answer.error.t = "dict" THEN answer.error.v.code ELSE 0

\* C11: a request whose method the server has no branch for is answered by a
\* response with error.code = -32601, error.message = "Method not found: "
\* followed by the method, result unset, and the id of the request.
C11_UnknownMethodNotFound ==
    (srvCall.op = "handle_request"
        /\ srvCall.request.method \notin DispatchedMethods) =>
        /\ ~srvCall.out.raised
        /\ srvCall.out.value.id = srvCall.request.id
        /\ srvCall.out.value.result = PyNone
        /\ srvCall.out.value.error.t = "dict"
        /\ srvCall.out.value.error.v =
               [code |-> -32601,
                message |-> "Method not found: " \o srvCall.request.method]
        /\ handlerCalls = srvCall.callsBefore

C11_Witness ==
    /\ srvCall.op = "handle_request"
    /\ srvCall.request.method = "prompts/list"
    /\ srvCall.request.id = "7"
    /\ ~srvCall.out.raised
    /\ ErrorCode(srvCall.out.value) = -32601

\* C12: a returned response carries code -32601 exactly when the method of
\* its request is outside {initialize, resources/list, resources/read,
\* tools/list, tools/call}; resources/read is never answered with -32601.
C12_NotFoundOnlyOutsideNamespace ==
    (srvCall.op = "handle_request" /\ ~srvCall.out.raised) =>
        (ErrorCode(srvCall.out.value) = -32601
            <=> srvCall.request.method \notin ProtocolMethods)

\* what the bound registry reports for the tools/call request just handled
RegistryReport ==
    LET params == srvCall.request.params
        tool_name == DictGet(params, "name", PyNone)
        arguments == DictGet(params, "arguments", PyDict(EmptyMap))
    IN execute_tool(_tools,
                    IF tool_name.t = "str" THEN tool_name.v ELSE NoneV,
                    Untag(arguments.v))

\* C13: a tools/call request on a server without registry is answered by
\* error -32603 "Tool registry not available" and no handler runs; with a
\* registry, a reported failure (an unknown name among them) is answered by
\* error -32603 carrying the reported error message, and a reported success
\* by a result holding one text block with the stringified result, error
\* unset.
C13_ToolCallResponses ==
    (srvCall.op = "handle_request" /\ srvCall.request.method = "tools/call"
        /\ ~srvCall.out.raised) =>
        LET answer == srvCall.out.value IN
        /\ answer.id = srvCall.request.id
        /\ IF tool_registry = "none"
           THEN /\ answer.result = PyNone
                /\ answer.error.t = "dict"
                /\ answer.error.v =
                       [code |-> -32603, message |-> "Tool registry not available"]
                /\ handlerCalls = srvCall.callsBefore
           ELSE LET report == RegistryReport.out.value IN
                IF report.success
                THEN /\ answer.error = PyNone
                     /\ answer.result.t = "dict"
                     /\ DOMAIN answer.result.v = {"content"}
                     /\ answer.result.v.content.t = "list"
                     /\ Len(answer.result.v.content.v) = 1
                     /\ answer.result.v.content.v[1].t = "dict"
                     /\ answer.result.v.content.v[1].v =
                            [type |-> "text",
                             text |-> PyStr(DictGet(report, "result", NoneV))]
                ELSE /\ answer.result = PyNone
                     /\ answer.error.t = "dict"
                     /\ answer.error.v =
                            [code |-> -32603, message |-> report.error]

C13_Witness ==
    /\ srvCall.op = "handle_request"
    /\ srvCall.request.method = "tools/call"
    /\ tool_registry = "bound"
    /\ ~srvCall.out.raised
    /\ ErrorCode(srvCall.out.value) = -32603
    /\ srvCall.out.value.error.v.message = "Tool 'frobnicate' not found"

\* C14: handle_request never raises, whatever the method and the params of
\* the request (a tools/call without name, with arguments that are a list,
\* with arguments holding the key `name`); it returns a answer.
C14_HandleNeverRaises ==
    srvCall.op = "handle_request" => ~srvCall.out.raised

(***************************************************************************)
(* Properties of the action generator                                      *)
(***************************************************************************)
\* C17: for a response carrying a function call the generator does not
\* raise and returns exactly one tool_call action named after the call, its
\* parameters the parsed mapping when the arguments parse to one and the
\* empty mapping otherwise (malformed text, absent or null arguments, JSON
\* that is not an object).
C17_StructuredCallGivesOneToolCall ==
    (genOut.done /\ genIn.function_call.present) =>
        /\ ~genOut.raised
        /\ Len(genOut.actions) = 1
        /\ genOut.actions[1].type = TOOL_CALL
        /\ genOut.actions[1].name = genIn.function_call.name
        /\ LET j == json_loads(genIn.function_call.arguments) IN
           genOut.actions[1].parameters =
               IF j.kind = "object" THEN j.obj ELSE EmptyMap

\* whether content, stripped of outer whitespace, begins with { or [, parses
\* and is an object with a type key from which an Action can be built
IsActionObject(content) ==
    LET c == strip(content)
        j == json_loads(c)
    IN /\ Len(c) >= 1
       /\ SubSeq(c, 1, 1) \in {"{", "["}
       /\ j.kind = "object"
       /\ ActionValidates(j.obj)

\* C18: for a response without function call and with non-empty content the
\* generator does not raise and returns exactly one action: the Action built
\* from the content when that is an action object, in every other case a
\* generate action whose parameters.content is the content as received.
C18_ContentGivesActionOrGenerate ==
    (genOut.done /\ ~genIn.function_call.present /\ genIn.content # "") =>
        /\ ~genOut.raised
        /\ Len(genOut.actions) = 1
        /\ LET a == genOut.actions[1] IN
           IF IsActionObject(genIn.content)
           THEN LET data == json_loads(strip(genIn.content)).obj IN
                /\ a.type = data["type"]
                /\ a.name = data["name"]
                /\ a.parameters = IF "parameters" \in DOMAIN data
                                  THEN data["parameters"].v ELSE EmptyMap
                /\ a.description = IF "description" \in DOMAIN data
                                   THEN data["description"] ELSE NoneV
           ELSE /\ a.type = LLM_GENERATE
                /\ a.name = "generate"
                /\ a.parameters = [content |-> genIn.content]

C18_Witness ==
    /\ genOut.done
    /\ ~genIn.function_call.present
    /\ genIn.content = "  " \o FinishJson \o "\n"
    /\ ~genOut.raised
    /\ Len(genOut.actions) = 1
    /\ genOut.actions[1].type = FINISH
    /\ genOut.actions[1].name = "done"

\* C25: register_tool and register_resource append their descriptor to the
\* server's list and change nothing else, also when an entry of the same
\* name is there; tools/list and resources/list return the list as it
\* stands, in order, and the empty list before any registration.
C25_ListsKeepEveryRegistration ==
    /\ srvCall.op = "register_tool" =>
          /\ server_tools = srvCall.toolsBefore \o srvCall.registered
          /\ Len(server_tools) = Len(srvCall.toolsBefore) + 1
          /\ resources = srvCall.resourcesBefore
    /\ srvCall.op = "register_resource" =>
          /\ resources = srvCall.resourcesBefore \o srvCall.registered
          /\ Len(resources) = Len(srvCall.resourcesBefore) + 1
          /\ server_tools = srvCall.toolsBefore
    /\ srvCall.op = "handle_request" =>
          /\ server_tools = srvCall.toolsBefore
          /\ resources = srvCall.resourcesBefore
          /\ srvCall.request.method = "tools/list" =>
                /\ ~srvCall.out.raised
                /\ srvCall.out.value.error = PyNone
                /\ srvCall.out.value.result.t = "dict"
                /\ DOMAIN srvCall.out.value.result.v = {"tools"}
                /\ srvCall.out.value.result.v.tools.t = "list"
                /\ srvCall.out.value.result.v.tools.v = srvCall.toolsBefore
          /\ srvCall.request.method = "resources/list" =>
                /\ ~srvCall.out.raised
                /\ srvCall.out.value.error = PyNone
                /\ srvCall.out.value.result.t = "dict"
                /\ DOMAIN srvCall.out.value.result.v = {"resources"}
                /\ srvCall.out.value.result.v.resources.t = "list"
                /\ srvCall.out.value.result.v.resources.v = srvCall.resourcesBefore

\* tools/list after two registrations under one name
C25_Witness ==
    /\ srvCall.op = "handle_request"
    /\ srvCall.request.method = "tools/list"
    /\ Len(srvCall.out.value.result.v.tools.v) = 2
    /\ srvCall.out.value.result.v.tools.v[1].name
           = srvCall.out.value.result.v.tools.v[2].name
    /\ srvCall.out.value.result.v.tools.v[1].description
           # srvCall.out.value.result.v.tools.v[2].description

(***************************************************************************)
(* Properties of the action executor                                       *)
(***************************************************************************)
\* C26: execute returns an ActionResult for every action: of every type,
\* whatever the registry, the handler or the protocol client does; an
\* exception raised on the way comes back as error_result(message).
C26_ExecutorReturnsResult ==
    execOut.done =>
        LET action == ExecutorActions[execOut.index]
            r == execOut.result
        IN /\ DOMAIN r = {"success", "result", "error", "metadata"}
           /\ r.success \in BOOLEAN
           /\ ~r.success => r.error # NoneV
           /\ (action.type = TOOL_CALL /\ BindCollision(action.parameters)) =>
                 /\ ~r.success
                 /\ r.error = "execute_tool() got multiple values for argument 'name'"
                 /\ r.result = NoneV
           /\ (action.type = MCP_REQUEST /\ execOut.sent.raised) =>
                 /\ ~r.success
                 /\ r.error = execOut.sent.exc
                 /\ r.result = NoneV
           /\ (action.type = MCP_REQUEST /\ ~execOut.sent.raised) => r.success

\* a tool call whose arguments hold the key `name`, answered by an error
C26_Witness ==
    /\ execOut.done
    /\ ExecutorActions[execOut.index].type = TOOL_CALL
    /\ ExecutorActions[execOut.index].name = "echo"
    /\ BindCollision(ExecutorActions[execOut.index].parameters)
    /\ ~execOut.result.success
    /\ execOut.result.error = "execute_tool() got multiple values for argument 'name'"

\* C27: executing a tool_call action gives what the registry's
\* execute_tool(action.name, **action.parameters) gives: success with result
\* "hi" for the registered echo with {text: "hi"}, failure with
\* "Tool '<name>' not found" for every action naming an unregistered tool.
C27_ToolCallGivesRegistryOutcome ==
    (execOut.done /\ ExecutorActions[execOut.index].type = TOOL_CALL) =>
        LET action == ExecutorActions[execOut.index]
            invoked == execute_tool(_tools, action.name, action.parameters)
            r == execOut.result
        IN /\ handlerCalls = execOut.callsBefore \o invoked.calls
           /\ action.name \notin DOMAIN _tools =>
                 /\ ~r.success
                 /\ r.error = "Tool '" \o action.name \o "' not found"
           /\ ~invoked.out.raised
           /\ r.success = invoked.out.value.success
           /\ r.success => r.result = DictGet(invoked.out.value, "result", NoneV)
           /\ ~r.success => r.error = invoked.out.value.error
           /\ execOut.index = 1 => r.success /\ r.result = "hi"

\* C28: a response with text, no function call and no JSON envelope makes
\* the shipped generator emit one generate action, and executing a generate
\* action records success_result(content) and nothing else: no handler runs,
\* no protocol request is built, no generation call is made.
C28_GenerateIsPureEcho ==
    /\ []((generator = "ActionGenerator" /\ pc = "execute"
              /\ ~response.function_call.present
              /\ ~IsActionObject(response.content)) =>
            /\ Len(actions) = 1
            /\ actions[1].type = LLM_GENERATE
            /\ actions[1].parameters = [content |-> response.content])
    /\ [][(pc = "execute" /\ idx <= Len(actions)
              /\ actions[idx].type = LLM_GENERATE) =>
            /\ Len(action_results') = Len(action_results) + 1
            /\ action_results'[Len(action_results')].action = actions[idx]
            /\ action_results'[Len(action_results')].result.success
            /\ action_results'[Len(action_results')].result.error = NoneV
            /\ action_results'[Len(action_results')].result.result
                   = actions[idx].parameters.content
            /\ handlerCalls' = handlerCalls
            /\ requests' = requests
            /\ request_id_counter' = request_id_counter
            /\ prompts' = prompts
            /\ conversation_history' = conversation_history
            /\ _tools' = _tools]_vars

\* the notes of the service echoed by the executor
C28_Witness ==
    /\ generator = "ActionGenerator"
    /\ response = LLMResponse("just some notes", NoCall)
    /\ Len(action_results) = 1
    /\ action_results[1].action.type = LLM_GENERATE
    /\ action_results[1].result = success_result("just some notes")
    /\ handlerCalls = <<>>

\* C29: when the results returned by run hold an error record (an iteration
\* raised), the returned success is false: never success = true with the
\* message "Task completed" after an iteration raised.
C29_RaiseNeverReportsSuccess ==
    (pc = "done" /\ \E i \in DOMAIN ret.results : "error" \in DOMAIN ret.results[i]) =>
        /\ exit.kind = "raised"
        /\ ret.success = FALSE
        /\ "message" \in DOMAIN ret => ret.message # "Task completed"

\* C30: the prompt of every iteration of a run on a fresh agent holds the
\* task as the caller gave it: it is the prompt of iteration 1 and a USER
\* entry of the prompt of every later iteration, up to max_iterations.
C30_PromptHoldsTask ==
    \A n \in 1..Len(prompts) :
        IF n = 1 THEN prompts[n] = origTask
        ELSE Contains(prompts[n], "USER: " \o origTask)

\* every generation call of the run so far returned text that the shipped
\* generator turned into one generate action echoing it
OnlyPlainText ==
    /\ generator = "ActionGenerator"
    /\ Len(batches) = Len(prompts)
    /\ Len(conversation_history) = Len(prompts) + 1
    /\ \A i \in 1..Len(batches) :
          /\ conversation_history[i + 1].content # ""
          /\ ~IsActionObject(conversation_history[i + 1].content)
          /\ batches[i].actions =
                <<Action(LLM_GENERATE, "generate",
                         [content |-> conversation_history[i + 1].content],
                         "LLM generated content")>>

\* C31: a response that is non-empty plain text never ends the run: its
\* generate action is dispatched and the loop goes on; a run all of whose
\* responses are such text makes exactly max_iterations iterations and
\* returns success = false with the message "Reached max iterations".
C31_PlainTextRunsToCap ==
    /\ []((pc = "done" /\ OnlyPlainText) =>
            /\ exit.kind = "cap"
            /\ iterations = max_iterations
            /\ Len(prompts) = max_iterations
            /\ ret.iterations = max_iterations
            /\ ret.success = FALSE
            /\ ret.message = "Reached max iterations"
            /\ Len(ret.results) = max_iterations)
    /\ [][(pc = "execute" /\ generator = "ActionGenerator"
              /\ ~response.function_call.present
              /\ ~IsActionObject(response.content)) =>
            pc' \in {"execute", "while"}]_vars

\* three iterations of text, then the return at the cap
C31_Witness ==
    /\ pc = "done"
    /\ OnlyPlainText
    /\ max_iterations = 3
    /\ Len(batches) = 3
    /\ \A i \in 1..3 : batches[i].actions[1].parameters.content = "just some notes"

\* C32: for every response the generator returns a list of at most one
\* action; a response with a function call and content (also content that
\* is an action object) yields the tool_call action of the call alone, so a
\* batch never holds an action in front of a finish action.
C32_AtMostOneAction ==
    genOut.done =>
        /\ ~genOut.raised
        /\ Len(genOut.actions) <= 1
        /\ genIn.function_call.present =>
              /\ Len(genOut.actions) = 1
              /\ genOut.actions[1].type = TOOL_CALL
              /\ genOut.actions[1].name = genIn.function_call.name
        /\ \A i \in DOMAIN genOut.actions :
              genOut.actions[i].type = FINISH => i = 1

\* a response carrying an error and no result
ErrorWithoutResult(answer) ==
    /\ DictGet(answer, "error", PyNone) # PyNone
    /\ DictGet(answer, "result", PyNone) = PyNone

\* what wrapper w returns for a successful response with an empty result
EmptyResultReturn(w) ==
    WrapperReturn(w, Returned([jsonrpc |-> "2.0", id |-> "1",
                               result |-> PyDict(EmptyMap), error |-> PyNone]))

\* the AttributeError of `.get` on the None stored under "result"
NoneHasNoGet == "'NoneType' object has no attribute 'get'"

\* C34: when the response to list_resources, read_resource, list_tools or
\* call_tool carries an error and no result, the wrapper reports the failure:
\* it does not return what it returns for a successful empty result, and it
\* does not fail with an internal exception unrelated to the error.
C34_ErrorResponseReported ==
    (/\ clientOut.wrapper \in {"list_resources", "read_resource",
                               "list_tools", "call_tool"}
     /\ ~clientOut.sent.raised
     /\ ErrorWithoutResult(clientOut.sent.value)) =>
        /\ clientOut.out.raised => clientOut.out.exc # NoneHasNoGet
        /\ ~clientOut.out.raised =>
              clientOut.out # EmptyResultReturn(clientOut.wrapper)

(***************************************************************************)
(* Properties of coroutines sharing one instance                           *)
(***************************************************************************)
\* C35: when several callers use one client at once, interleaved only where
\* a send suspends, no two requests built by the instance carry the same id,
\* and the id of each caller's request is the counter's value right after
\* that caller's own increment.
C35_ConcurrentIdsDistinct ==
    /\ \A i, j \in DOMAIN requests : i # j => requests[i] # requests[j]
    /\ \A c \in Callers :
          callers[c].id # NoneV =>
              /\ callers[c].id = IntStr(callers[c].after)
              /\ callers[c].after \in DOMAIN requests
              /\ requests[callers[c].after] = callers[c].id
    /\ \A c, d \in Callers :
          (c # d /\ callers[c].pc = "awaiting" /\ callers[d].pc = "awaiting") =>
              callers[c].id # callers[d].id
    /\ request_id_counter = Len(requests)

\* both callers suspended in their sends, the second caller's request built
\* first, after an earlier call of the first caller had returned
C35_Witness ==
    /\ callers[1].pc = "awaiting" /\ callers[2].pc = "awaiting"
    /\ callers[2].id = "2" /\ callers[1].id = "3"
    /\ clientOut.id = "1"
    /\ transport = "injected"

\* C33: the prompts of a run hold entries of that run only: when run is
\* invoked twice on one agent, one run after the other or both at once, no
\* prompt of either run holds the user entry of the other run.
C33_PromptsHoldOwnRunOnly ==
    /\ \A n \in DOMAIN prompts :
          ~Contains(prompts[n], "USER: " \o SharedTasks[3 - current])
    /\ \A n \in DOMAIN parked.prompts :
          ~Contains(parked.prompts[n], "USER: " \o SharedTasks[current])

\* whether sequence q begins with sequence p
IsPrefix(p, q) == Len(p) <= Len(q) /\ SubSeq(q, 1, Len(p)) = p

\* the exception of a generation call that raised
GenerationError == "OpenAI API error: timeout"

\* C37: the conversation context is append-only: no step removes, reorders
\* or changes an entry; a run appends one user entry at its start and one
\* assistant entry per generation call that returned, none for a call that
\* raised, so a run leaves the context longer by 1 + the number of
\* generation calls that returned.
C37_ContextIsAppendOnly ==
    /\ [][/\ IsPrefix(conversation_history, conversation_history')
          /\ Len(conversation_history') <= Len(conversation_history) + 1
          /\ pc = "idle" =>
                conversation_history' = Append(conversation_history,
                    [role |-> "user", content |-> origTask'])
          /\ (pc # "idle" /\ Len(prompts') > Len(prompts)) =>
                IF exit'.kind = "raised" /\ exit'.msg = GenerationError
                THEN conversation_history' = conversation_history
                ELSE conversation_history' = Append(conversation_history,
                         [role |-> "assistant", content |-> response'.content])
          /\ (pc # "idle" /\ Len(prompts') = Len(prompts)) =>
                conversation_history' = conversation_history]_vars
    /\ [](pc = "done" =>
            Len(conversation_history) =
                1 + Len(prompts)
                  - (IF exit.kind = "raised" /\ exit.msg = GenerationError
                     THEN 1 ELSE 0))

\* a run of three generation calls the last of which raised: four entries
C37_Witness ==
    /\ pc = "done"
    /\ Len(prompts) = 3
    /\ exit.kind = "raised" /\ exit.msg = GenerationError
    /\ Len(conversation_history) = 3
    /\ conversation_history[1].role = "user"
    /\ conversation_history[3].role = "assistant"

(***************************************************************************)
(* Properties of the protocol server, continued                            *)
(***************************************************************************)
\* the tool names in the server's answer to tools/list
AdvertisedToolNames ==
    LET answer == handle_request(tool_registry, _tools, resources, server_tools,
                                 MCPRequest("1", "tools/list", EmptyMap)).out.value
        listed == answer.result.v.tools.v
    IN { listed[i].name : i \in DOMAIN listed }

\* whether tools/call finds a tool under this name: its answer is not the
\* registry's report that the tool does not exist
FoundByToolCall(name) ==
    LET r == _handle_tool_call(tool_registry, _tools,
                 MCPRequest("1", "tools/call",
                            [name |-> PyText(name), arguments |-> PyDict(EmptyMap)]))
    IN \/ r.out.raised
       \/ r.out.value.error = PyNone
       \/ r.out.value.error.v.message # "Tool '" \o name \o "' not found"

\* the names tools/call can dispatch, among those registered anywhere
DispatchableToolNames ==
    { name \in DOMAIN _tools \cup AdvertisedToolNames \cup {"frobnicate"} :
          FoundByToolCall(name) }

\* C36: on a server with a bound registry the tool names advertised by
\* tools/list are the tool names tools/call can dispatch: every tool
\* reachable through tools/call is listed and every listed tool is found.
C36_ListedIsCallable ==
    tool_registry = "bound" => AdvertisedToolNames = DispatchableToolNames

\* C38: every response handle_request returns carries the id of the request
\* it answers, for every method, for results and errors alike, and
\* handle_request leaves the server's resource and tool lists as they were.
C38_ResponseCarriesRequestId ==
    srvCall.op = "handle_request" =>
        /\ resources = srvCall.resourcesBefore
        /\ server_tools = srvCall.toolsBefore
        /\ ~srvCall.out.raised =>
              /\ srvCall.out.value.id = srvCall.request.id
              /\ srvCall.out.value.jsonrpc = "2.0"
              /\ (srvCall.out.value.result = PyNone)
                     # (srvCall.out.value.error = PyNone)

\* the failure of a registered tool answered under the request's id "7", on
\* a server holding a resource and a tool descriptor
C38_Witness ==
    /\ srvCall.op = "handle_request"
    /\ srvCall.request.method = "tools/call"
    /\ srvCall.request.id = "7"
    /\ ~srvCall.out.raised
    /\ srvCall.out.value.error # PyNone
    /\ srvCall.out.value.id = "7"
    /\ Len(resources) = 1 /\ Len(server_tools) = 1

(***************************************************************************)
(* Properties of the control loop, continued                               *)
(***************************************************************************)
\* C39: a run invoked with max_iterations = 1 whose only iteration executes
\* one tool call that is not Finish and that succeeds returns success = true,
\* with the tool's result in results.
C39_OneShotToolCallSucceeds ==
    (/\ pc = "done"
     /\ argMax = [given |-> TRUE, value |-> 1]
     /\ Len(dispatched) = 1
     /\ dispatched[1].action.type = TOOL_CALL
     /\ Len(ret.results) = 1
     /\ "result" \in DOMAIN ret.results[1]
     /\ ret.results[1].result.success) =>
        ret.success = TRUE

\* C40: no run changes the capability registry: from the start to the end
\* of every run, and of every interleaving of two runs sharing the registry,
\* the registered names and the handler bound to each name stay as they
\* were, whatever actions are generated and executed.
C40_RunsLeaveRegistry ==
    /\ [](/\ _tools = AgentTools
          /\ _tools_order = <<"echo", "boom">>
          /\ Len(registrations) = 2)
    /\ [][/\ _tools' = _tools
          /\ _tools_order' = _tools_order
          /\ registrations' = registrations]_vars

\* two interleaved runs returned, each having run a registered tool
C40_Witness ==
    /\ pc = "done" /\ parked.pc = "done"
    /\ Len(conversation_history) >= 2 /\ conversation_history[2].role = "user"
    /\ \E i \in DOMAIN dispatched : dispatched[i].action.type = TOOL_CALL
    /\ \E i \in DOMAIN parked.dispatched : parked.dispatched[i].action.type = TOOL_CALL
    /\ Len(handlerCalls) >= 2
    /\ _tools = AgentTools

====
